---- MODULE Spec2Model ----
(***************************************************************************)
(* A model of the release pipeline of deno-project-manager (tools/git.ts): *)
(* getCommitLabel, getReleaseObject and parseGitLogOutput.                  *)
(*                                                                         *)
(* Strings are sequences of chunks.  A chunk is a maximal run of word      *)
(* characters ("bug"), one punctuation character (":"), or a literal the   *)
(* code searches for as a unit ("tag: v", the `{"hash"` marker).  The      *)
(* empty string is the empty sequence.                                     *)
(***************************************************************************)
EXTENDS Integers, Sequences, FiniteSets, TLC

VARIABLES
    \* getReleaseObject(version, commits)
    version, commits, firstParentLog, i, release, pc, returned, thrown,
    classified, fallbackCalls,
    \* getCommitLabel(subject), called on its own
    subject, labelPc, labelOut,
    \* parseGitLogOutput(output)
    output, rawCommits, idx, parsed, parsePc, parseReturned, parseThrown,
    \* CommitSchema.parse(raw), called on its own
    schemaIn, schemaPc, schemaOut,
    \* compareCommitsByTimestamp(a, b), called on its own
    cmpA, cmpB, cmpPc, cmpOut,
    \* VersionObject: the constructor's argument, the instances created (in
    \* order of creation), the position and the last method call
    verRaw, objs, verPc, verCall,
    \* deploy: the root directory's listing, the option deployExclusions, the
    \* exclusion pattern, the manifest, the side table and paths read, the
    \* position
    fsRoot, deployExclusions, exclusionRegex, deployManifest, deployEffects, deployPc,
    \* deploy: the separate patterns handed to the walk and the files it read
    exclusions, filesContent,
    \* retrieveAllCommits() and retrieveFirstCommit(): what `git log` printed,
    \* the position, the function called, its result or the error it threw
    gitLog, retrPc, retrCall, retrAll, retrFirst, retrThrown

relVars == <<version, commits, firstParentLog, i, release, pc, returned,
             thrown, classified, fallbackCalls>>
labelVars == <<subject, labelPc, labelOut>>
parseVars == <<output, rawCommits, idx, parsed, parsePc, parseReturned,
               parseThrown>>
schemaVars == <<schemaIn, schemaPc, schemaOut>>
cmpVars == <<cmpA, cmpB, cmpPc, cmpOut>>
gitVars == <<relVars, labelVars, parseVars>>
verVars == <<verRaw, objs, verPc, verCall>>
deployVars == <<fsRoot, deployExclusions, exclusionRegex, deployManifest,
                deployEffects, deployPc, exclusions, filesContent>>
retrVars == <<gitLog, retrPc, retrCall, retrAll, retrFirst, retrThrown>>
laterVars == <<schemaVars, cmpVars, verVars, deployVars, retrVars>>
notSchemaVars == <<gitVars, cmpVars, verVars, deployVars, retrVars>>
notCmpVars == <<gitVars, schemaVars, verVars, deployVars, retrVars>>
notVerVars == <<gitVars, schemaVars, cmpVars, deployVars, retrVars>>
notDeployVars == <<gitVars, schemaVars, cmpVars, verVars, retrVars>>
notRetrVars == <<gitVars, schemaVars, cmpVars, verVars, deployVars>>
vars == <<gitVars, laterVars>>

\* ------------------------------------------------------------------ bounds
MaxCommits == 3
MaxSubjectLen == 5
MaxPieces == 3
MaxRawSubjectLen == 3
MaxPart == 3
MaxObjects == 3
MaxEntries == 2

\* ---------------------------------------------------------------- constants
\* The length of a SHA-1 digest, in bytes.
DigestLen == 20

\* ----------------------------------------------------------------- strings
EmptyString == <<>>
Colon == ":"
Space == " "
TagPrefix == "tag: v"

\* The chunks that are runs of \w characters ([A-Za-z0-9_]+).
EmojiWords == {"sparkles", "tada", "bug", "lock", "boom", "fire", "art",
               "wastebasket", "bookmark", "rainbow_flag", "memo"}
PlainWords == {"Message", "Release", "Update", "I", "have", "no", "emoji"}
IsWord(ch) == ch \in EmojiWords \cup PlainWords

\* s.includes(t): t occurs in s as a contiguous run.
Includes(s, t) ==
    \E p \in 0..(Len(s) - Len(t)) :
        \A k \in 1..Len(t) : s[p + k] = t[k]

\* ------------------------------------------------------------ git.data.ts
Labels == {"Breaking Changes", "Added", "Security", "Fixed", "Removed",
           "Deprecated", "Changed", "Miscellaneous", "Release"}
UnreleasedLabels == Labels \ {"Release"}

EMOJI_MAP == <<
    [label |-> "Breaking Changes", emojis |-> {"boom"}],
    [label |-> "Added", emojis |-> {"sparkles", "tada"}],
    [label |-> "Security", emojis |-> {"lock"}],
    [label |-> "Fixed", emojis |-> {"bug"}],
    [label |-> "Removed", emojis |-> {"fire"}],
    [label |-> "Deprecated", emojis |-> {"wastebasket"}],
    [label |-> "Changed", emojis |-> {"art"}],
    [label |-> "Release", emojis |-> {"bookmark"}] >>

DEFAULT_EMOJI_GROUP == [label |-> "Miscellaneous", emojis |-> {}]

\* ---------------------------------------------------------- getCommitLabel
\* subject.match(/:\w+:/): the leftmost position where a colon, one run of
\* word characters and a colon follow each other; 0 when there is none.
\* Mutant: the pattern anchored at the start of the scan (/^:\w+:/).
MatchFrom_Anchored(s, p) ==
    IF p + 2 <= Len(s) /\ s[p] = Colon /\ IsWord(s[p + 1]) /\ s[p + 2] = Colon
    THEN p ELSE 0

\* Mutant: the last match instead of the first.
MatchFrom_Last(s, p) ==
    LET hits == { q \in p..(Len(s) - 2) :
                    s[q] = Colon /\ IsWord(s[q + 1]) /\ s[q + 2] = Colon }
    IN  IF hits = {} THEN 0 ELSE CHOOSE q \in hits : \A r \in hits : r <= q

RECURSIVE MatchFrom(_, _)
MatchFrom(s, p) ==
    IF p + 2 > Len(s) THEN 0
    ELSE IF s[p] = Colon /\ IsWord(s[p + 1]) /\ s[p + 2] = Colon THEN p
    ELSE MatchFrom(s, p + 1)

EmojiMatch(s) == MatchFrom(s, 1)

\* The loop over EMOJI_MAP: the label of the first group that lists emoji.
RECURSIVE GroupLoop(_, _)
GroupLoop(emoji, g) ==
    IF g > Len(EMOJI_MAP) THEN DEFAULT_EMOJI_GROUP.label
    ELSE IF \E e \in EMOJI_MAP[g].emojis : emoji = <<e>> THEN EMOJI_MAP[g].label
    ELSE GroupLoop(emoji, g + 1)

NoThrow == [message |-> "", cause |-> <<>>]

getCommitLabel(s) ==
    LET m == EmojiMatch(s) IN
    IF m = 0
    THEN [threw |-> TRUE, label |-> "",
          error |-> [message |-> "No emoji found :(", cause |-> s]]
    ELSE LET emoji == SelectSeq(SubSeq(s, m, m + 2), LAMBDA ch : ch # Colon)
         IN  [threw |-> FALSE, label |-> GroupLoop(emoji, 1), error |-> NoThrow]

\* -------------------------------------------------------- initReleaseObject
\* Mutant: a bucket for every label, Release included.
initReleaseObject_AllLabels(v, previous) ==
    [owner |-> EmptyString,
     name |-> EmptyString,
     version |-> v,
     tag |-> <<"v">> \o v,
     previous |-> previous,
     previousTag |-> EmptyString,
     changes |-> [l \in Labels |-> [label |-> l, commits |-> <<>>]]]

initReleaseObject(v, previous) ==
    [owner |-> EmptyString,
     name |-> EmptyString,
     version |-> v,
     tag |-> <<"v">> \o v,
     previous |-> previous,
     previousTag |-> EmptyString,
     changes |-> [l \in UnreleasedLabels |-> [label |-> l, commits |-> <<>>]]]

\* ------------------------------------------------- extractVersionFromCommit
\* ref.replace("tag: v", ""): the first occurrence is removed, the rest kept.
RECURSIVE RemoveFirst(_, _)
RemoveFirst(s, ch) ==
    IF s = <<>> THEN <<>>
    ELSE IF Head(s) = ch THEN Tail(s)
    ELSE <<Head(s)>> \o RemoveFirst(Tail(s), ch)

\* Mutant: the ref taken as it is.
extractVersionFromCommit_Raw(commit) == commit.ref

extractVersionFromCommit(commit) == RemoveFirst(commit.ref, TagPrefix)

\* ------------------------------------------------------ retrieveFirstCommit
\* Mutant: ascending order.
compareCommitsByTimestamp_Asc(a, b) == a.timestamp - b.timestamp

compareCommitsByTimestamp(a, b) == b.timestamp - a.timestamp

\* Array.prototype.sort with a comparator: a stable insertion, x goes after
\* every element it does not come strictly before.
RECURSIVE Insert(_, _)
Insert(sorted, x) ==
    IF sorted = <<>> THEN <<x>>
    ELSE IF compareCommitsByTimestamp(x, Head(sorted)) < 0
         THEN <<x>> \o sorted
         ELSE <<Head(sorted)>> \o Insert(Tail(sorted), x)

RECURSIVE Sort(_)
Sort(s) == IF s = <<>> THEN <<>> ELSE Insert(Sort(SubSeq(s, 1, Len(s) - 1)), s[Len(s)])

toReversed(s) == [k \in 1..Len(s) |-> s[Len(s) + 1 - k]]

Undefined == [undefined |-> TRUE]

\* Mutant: the log returned in the order git printed it.
retrieveAllCommits_Unsorted(log) == log

\* parseGitLogOutput(output).sort(compareCommitsByTimestamp)
retrieveAllCommits(log) == Sort(log)

\* Mutant: the head of the sorted log, without the reversal.
retrieveFirstCommit_NoReverse(log) ==
    LET r == Sort(log) IN IF r = <<>> THEN Undefined ELSE r[1]

\* parseGitLogOutput(output).sort(compareCommitsByTimestamp).toReversed()[0]
retrieveFirstCommit(log) ==
    LET r == toReversed(Sort(log)) IN IF r = <<>> THEN Undefined ELSE r[1]

\* ------------------------------------------------------------------ inputs
Commit(h, t, subj, ref) ==
    [hash |-> <<h>>, timestamp |-> t, subject |-> subj, ref |-> ref]

Emoji(w) == <<Colon, w, Colon>>

CommitPool == {
    Commit("h1", 6, Emoji("sparkles") \o <<Space, "Message">>, EmptyString),
    Commit("h2", 5, Emoji("bug") \o <<Space, "Message">>, EmptyString),
    Commit("h3", 4, Emoji("tada") \o <<Space, "Message">>, EmptyString),
    Commit("h4", 3, Emoji("bookmark") \o <<Space, "Release">>,
           <<TagPrefix, "0.1.0">>),
    Commit("h5", 2, <<"I", Space, "have", Space, "no", Space, "emoji">>,
           EmptyString),
    Commit("h6", 2, Emoji("rainbow_flag") \o <<Space, "Message">>, EmptyString),
    Commit("h7", 1, Emoji("bookmark") \o <<Space, "Release">>, EmptyString),
    Commit("h8", 1, Emoji("bookmark") \o <<Space, "Release">>,
           <<"HEAD -> main, ", TagPrefix, "1.0.0">>) }

RootCommit == Commit("h0", 0, Emoji("tada") \o <<Space, "Message">>, EmptyString)
LaterCommit == Commit("h9", 7, Emoji("art") \o <<Space, "Message">>, EmptyString)

\* What `git log --first-parent` holds when the fallback asks for it.
FirstParentLogs == { <<>>, <<RootCommit>>, <<LaterCommit, RootCommit>>,
                     <<RootCommit, LaterCommit>> }

Versions == { <<"1.0.0">>, <<"1.1.0">> }

\* Commit lists without a repeated commit, of length at most MaxCommits.
CommitLists ==
    UNION { { s \in [1..n -> CommitPool] :
                \A a, b \in 1..n : a # b => s[a] # s[b] } : n \in 0..MaxCommits }

NoRelease == [none |-> TRUE]

\* --------------------------------------------------------- getReleaseObject
\* line 305: const release = initReleaseObject(version)
Enter ==
    /\ pc = "start"
    /\ release' = initReleaseObject(version, EmptyString)
    /\ i' = 1
    /\ pc' = "loop"
    /\ UNCHANGED <<version, commits, firstParentLog, returned, thrown,
                   classified, fallbackCalls, labelVars, parseVars, laterVars>>

\* Mutant: a Release commit records the previous version without ending
\* the loop.
LoopBody_NoBreak(c, l) ==
    IF l.threw
    THEN /\ thrown' = l.error
         /\ pc' = "failed"
         /\ UNCHANGED <<i, release>>
    ELSE IF l.label = "Release"
    THEN /\ release' = [release EXCEPT
                          !.previous = extractVersionFromCommit(c),
                          !.previousTag = <<"v">> \o extractVersionFromCommit(c)]
         /\ i' = i + 1
         /\ UNCHANGED <<pc, thrown>>
    ELSE /\ release' = [release EXCEPT
                          !.changes[l.label].commits = Append(@, c)]
         /\ i' = i + 1
         /\ UNCHANGED <<pc, thrown>>

\* Mutant: unshift instead of push.
LoopBody_Unshift(c, l) ==
    IF l.threw
    THEN /\ thrown' = l.error
         /\ pc' = "failed"
         /\ UNCHANGED <<i, release>>
    ELSE IF l.label = "Release"
    THEN /\ release' = [release EXCEPT
                          !.previous = extractVersionFromCommit(c),
                          !.previousTag = <<"v">> \o extractVersionFromCommit(c)]
         /\ pc' = "after"
         /\ UNCHANGED <<i, thrown>>
    ELSE /\ release' = [release EXCEPT
                          !.changes[l.label].commits = <<c>> \o @]
         /\ i' = i + 1
         /\ UNCHANGED <<pc, thrown>>

\* Mutant: a commit without a marker is passed over.
LoopBody_Skip(c, l) ==
    IF l.threw
    THEN /\ i' = i + 1
         /\ UNCHANGED <<pc, thrown, release>>
    ELSE IF l.label = "Release"
    THEN /\ release' = [release EXCEPT
                          !.previous = extractVersionFromCommit(c),
                          !.previousTag = <<"v">> \o extractVersionFromCommit(c)]
         /\ pc' = "after"
         /\ UNCHANGED <<i, thrown>>
    ELSE /\ release' = [release EXCEPT
                          !.changes[l.label].commits = Append(@, c)]
         /\ i' = i + 1
         /\ UNCHANGED <<pc, thrown>>

\* Mutant: every commit goes to the Miscellaneous bucket, whatever its label.
LoopBody_Misc(c, l) ==
    IF l.threw
    THEN /\ thrown' = l.error
         /\ pc' = "failed"
         /\ UNCHANGED <<i, release>>
    ELSE IF l.label = "Release"
    THEN /\ release' = [release EXCEPT
                          !.previous = extractVersionFromCommit(c),
                          !.previousTag = <<"v">> \o extractVersionFromCommit(c)]
         /\ pc' = "after"
         /\ UNCHANGED <<i, thrown>>
    ELSE /\ release' = [release EXCEPT
                          !.changes["Miscellaneous"].commits = Append(@, c)]
         /\ i' = i + 1
         /\ UNCHANGED <<pc, thrown>>

\* lines 307-318: one iteration of the loop
LoopBody(c, l) ==
    IF l.threw
    THEN /\ thrown' = l.error
         /\ pc' = "failed"
         /\ UNCHANGED <<i, release>>
    ELSE IF l.label = "Release"
    THEN /\ release' = [release EXCEPT
                          !.previous = extractVersionFromCommit(c),
                          !.previousTag = <<"v">> \o extractVersionFromCommit(c)]
         /\ pc' = "after"
         /\ UNCHANGED <<i, thrown>>
    ELSE /\ release' = [release EXCEPT
                          !.changes[l.label].commits = Append(@, c)]
         /\ i' = i + 1
         /\ UNCHANGED <<pc, thrown>>

Iterate ==
    /\ pc = "loop"
    /\ i <= Len(commits)
    /\ classified' = Append(classified, i)
    /\ LoopBody(commits[i], getCommitLabel(commits[i].subject))
    /\ UNCHANGED <<version, commits, firstParentLog, returned, fallbackCalls,
                   labelVars, parseVars, laterVars>>

\* line 307: the loop condition fails
LoopEnd ==
    /\ pc = "loop"
    /\ i > Len(commits)
    /\ pc' = "after"
    /\ UNCHANGED <<version, commits, firstParentLog, i, release, returned,
                   thrown, classified, fallbackCalls, labelVars, parseVars, laterVars>>

\* Mutant: the fallback tag built like a version tag.
FallbackBody_VTag(firstCommit) ==
    IF firstCommit = Undefined
    THEN /\ thrown' = [message |-> "TypeError", cause |-> <<>>]
         /\ pc' = "failed"
         /\ UNCHANGED release
    ELSE /\ release' = [release EXCEPT !.previous = firstCommit.hash,
                                        !.previousTag = <<"v">> \o firstCommit.hash]
         /\ pc' = "return"
         /\ UNCHANGED thrown

\* lines 320-324: if (release.previous === "") { ... }
FallbackBody(firstCommit) ==
    IF firstCommit = Undefined
    THEN /\ thrown' = [message |-> "TypeError", cause |-> <<>>]
         /\ pc' = "failed"
         /\ UNCHANGED release
    ELSE /\ release' = [release EXCEPT !.previous = firstCommit.hash,
                                        !.previousTag = firstCommit.hash]
         /\ pc' = "return"
         /\ UNCHANGED thrown

Fallback ==
    /\ pc = "after"
    /\ IF release.previous = EmptyString
       THEN /\ fallbackCalls' = fallbackCalls + 1
            /\ FallbackBody(retrieveFirstCommit(firstParentLog))
       ELSE /\ pc' = "return"
            /\ UNCHANGED <<release, thrown, fallbackCalls>>
    /\ UNCHANGED <<version, commits, firstParentLog, i, returned, classified,
                   labelVars, parseVars, laterVars>>

\* line 326: return release
Return ==
    /\ pc = "return"
    /\ returned' = release
    /\ pc' = "done"
    /\ UNCHANGED <<version, commits, firstParentLog, i, release, thrown,
                   classified, fallbackCalls, labelVars, parseVars, laterVars>>

\* -------------------------------------------------------- parseGitLogOutput
\* The chunks of a log text.  Marker is the literal the code splits on; a
\* header is what the format prints between it and the subject's text; End
\* closes the subject and the object.
Marker == "{\"hash\""
Hdr1 == ":\"h1\",\"id\":\"h1\",\"timestamp\":\"6\",\"author\":{},\"subject\":\""
Hdr2 == ":\"h2\",\"id\":\"h2\",\"timestamp\":\"5\",\"author\":{},\"subject\":\""
Hdr4 == ":\"h4\",\"id\":\"h4\",\"timestamp\":\"5\",\"author\":{},\"subject\":\""
Hdr5 == ":\"h5\",\"id\":\"h5\",\"timestamp\":\"7\",\"author\":{},\"subject\":\""
HdrDate == ":\"h3\",\"id\":\"h3\",\"timestamp\":\"Fri Nov 18 2023\",\"author\":{},\"subject\":\""
End == "\",\"ref\":\"\"}"
NL == "\n"
Garbage == "<>"
Glyph == "U+1F4DD"

Headers == {Hdr1, Hdr2, Hdr4, Hdr5, HdrDate}
HeaderHash(h) ==
    IF h = Hdr1 THEN <<"h1">> ELSE IF h = Hdr2 THEN <<"h2">>
    ELSE IF h = Hdr4 THEN <<"h4">> ELSE IF h = Hdr5 THEN <<"h5">> ELSE <<"h3">>
\* The raw timestamp: Number(raw) is n when numeric; otherwise it is NaN and
\* n is the epoch second the calendar date string denotes.
HeaderTimestamp(h) ==
    IF h = Hdr1 THEN [numeric |-> TRUE, n |-> 6]
    ELSE IF h = Hdr2 THEN [numeric |-> TRUE, n |-> 5]
    ELSE IF h = Hdr4 THEN [numeric |-> TRUE, n |-> 5]
    ELSE IF h = Hdr5 THEN [numeric |-> TRUE, n |-> 7]
    ELSE [numeric |-> FALSE, n |-> 7]

\* What may stand unescaped inside a JSON string: no quote, no control
\* character (a raw newline is one).
StringChunks == {"Update", "Message", Glyph, Garbage, Colon, Space, "bug"}

\* output.split(`{"hash"`): the pieces between the occurrences of the marker.
RECURSIVE SplitFrom(_, _, _)
SplitFrom(s, cur, acc) ==
    IF s = <<>> THEN Append(acc, cur)
    ELSE IF Head(s) = Marker THEN SplitFrom(Tail(s), <<>>, Append(acc, cur))
    ELSE SplitFrom(Tail(s), Append(cur, Head(s)), acc)

Split(s) == SplitFrom(s, <<>>, <<>>)

\* Array.prototype.compact: filter(Boolean) drops the empty strings.
compact(arr) == SelectSeq(arr, LAMBDA v : v # EmptyString)

\* JSON.parse of a fragment: an object is the marker, a header, the
\* subject's characters, End, then nothing but whitespace.
RECURSIVE StringEnd(_, _)
StringEnd(f, p) ==
    IF p > Len(f) THEN p
    ELSE IF f[p] \in StringChunks THEN StringEnd(f, p + 1)
    ELSE p

JsonParse(f) ==
    IF Len(f) < 3 \/ f[1] # Marker \/ f[2] \notin Headers
    THEN [threw |-> TRUE, hash |-> <<>>, timestamp |-> [numeric |-> FALSE, n |-> 0],
          subject |-> <<>>]
    ELSE LET e == StringEnd(f, 3) IN
         IF /\ e <= Len(f)
            /\ f[e] = End
            /\ \A k \in (e + 1)..Len(f) : f[k] = NL
         THEN [threw |-> FALSE, hash |-> HeaderHash(f[2]),
               timestamp |-> HeaderTimestamp(f[2]), subject |-> SubSeq(f, 3, e - 1)]
         ELSE [threw |-> TRUE, hash |-> <<>>,
               timestamp |-> [numeric |-> FALSE, n |-> 0], subject |-> <<>>]

\* parseDate: a numeric value becomes the Date asNumber * 1000, anything
\* else is handed on as it is.
parseDate(date) ==
    IF date.numeric THEN [isDate |-> TRUE, time |-> date.n * 1000]
    ELSE [isDate |-> FALSE, time |-> 0]

\* z.string().trim()
RECURSIVE TrimLeft(_)
TrimLeft(s) ==
    IF s # <<>> /\ Head(s) = Space THEN TrimLeft(Tail(s)) ELSE s

RECURSIVE TrimRight(_)
TrimRight(s) ==
    IF s # <<>> /\ s[Len(s)] = Space THEN TrimRight(SubSeq(s, 1, Len(s) - 1)) ELSE s

Trim(s) == TrimRight(TrimLeft(s))

\* unemojify: every glyph becomes its :code:.
RECURSIVE unemojify(_)
unemojify(s) ==
    IF s = <<>> THEN <<>>
    ELSE IF Head(s) = Glyph THEN <<Colon, "memo", Colon>> \o unemojify(Tail(s))
    ELSE <<Head(s)>> \o unemojify(Tail(s))

\* Mutant: the subject kept as it came.
parseSubject_Keep(commit) == commit

parseSubject(commit) == [commit EXCEPT !.subject = unemojify(commit.subject)]

NoCommit == Commit("", 0, EmptyString, EmptyString)

\* CommitSchema.parse: z.date() takes the preprocessed timestamp only when
\* it is a Date.
CommitSchemaParse(raw) ==
    LET d == parseDate(raw.timestamp) IN
    IF ~d.isDate
    THEN [threw |-> TRUE, commit |-> NoCommit]
    ELSE [threw |-> FALSE,
          commit |-> parseSubject([hash |-> raw.hash, timestamp |-> d.time,
                                   subject |-> Trim(raw.subject),
                                   ref |-> EmptyString])]

NoParseError == [message |-> "", commit |-> <<>>, error |-> ""]

parseCommit(rawCommit) ==
    LET j == JsonParse(rawCommit) IN
    IF j.threw
    THEN [threw |-> TRUE, commit |-> NoCommit,
          error |-> [message |-> "Parse commit failed.", commit |-> rawCommit,
                     error |-> "SyntaxError"]]
    ELSE LET c == CommitSchemaParse(j) IN
         IF c.threw
         THEN [threw |-> TRUE, commit |-> NoCommit,
               error |-> [message |-> "Parse commit failed.",
                          commit |-> rawCommit, error |-> "ZodError"]]
         ELSE [threw |-> FALSE, commit |-> c.commit, error |-> NoParseError]

\* The log texts: up to MaxPieces pieces, one after the other.
Pieces == {
    <<Marker, Hdr1, Glyph, Space, "Update", End, NL>>,
    <<Marker, Hdr2, "Update", End>>,
    <<Marker, Hdr1, "Update", NL, "Message", End, NL>>,
    <<Marker, HdrDate, "Update", End, NL>>,
    <<Marker, Hdr2, "Update">>,
    <<Marker>>,
    <<Garbage>>,
    <<NL>> }

RECURSIVE Flatten(_)
Flatten(ps) == IF ps = <<>> THEN <<>> ELSE Head(ps) \o Flatten(Tail(ps))

Outputs == UNION { { Flatten(ps) : ps \in [1..k -> Pieces] } : k \in 0..MaxPieces }

\* line 137
ParseEnter ==
    /\ parsePc = "start"
    /\ rawCommits' = [k \in 1..Len(compact(Split(output))) |->
                        <<Marker>> \o compact(Split(output))[k]]
    /\ idx' = 1
    /\ parsePc' = "map"
    /\ UNCHANGED <<output, parsed, parseReturned, parseThrown, relVars, labelVars, laterVars>>

\* Mutant: a fragment that does not parse is dropped.
MapBody_Drop(r) ==
    IF r.threw
    THEN /\ idx' = idx + 1
         /\ UNCHANGED <<parsed, parsePc, parseThrown>>
    ELSE /\ parsed' = Append(parsed, r.commit)
         /\ idx' = idx + 1
         /\ UNCHANGED <<parsePc, parseThrown>>

\* line 139: rawCommits.map(parseCommit), one element
MapBody(r) ==
    IF r.threw
    THEN /\ parseThrown' = r.error
         /\ parsePc' = "failed"
         /\ UNCHANGED <<idx, parsed>>
    ELSE /\ parsed' = Append(parsed, r.commit)
         /\ idx' = idx + 1
         /\ UNCHANGED <<parsePc, parseThrown>>

ParseMap ==
    /\ parsePc = "map"
    /\ idx <= Len(rawCommits)
    /\ MapBody(parseCommit(rawCommits[idx]))
    /\ UNCHANGED <<output, rawCommits, parseReturned, relVars, labelVars, laterVars>>

ParseReturn ==
    /\ parsePc = "map"
    /\ idx > Len(rawCommits)
    /\ parseReturned' = parsed
    /\ parsePc' = "done"
    /\ UNCHANGED <<output, rawCommits, idx, parsed, parseThrown, relVars, labelVars, laterVars>>

\* ---------------------------------------------- getCommitLabel on its own
WordChunks == {"sparkles", "bug", "bookmark", "rainbow_flag"}
SubjectChunks == {Colon, Space} \cup WordChunks

\* Two word chunks never touch: a run of word characters is one chunk.
WellChunked(s) ==
    \A k \in 1..(Len(s) - 1) : ~(IsWord(s[k]) /\ IsWord(s[k + 1]))

NoEmojiSubject == <<"I", Space, "have", Space, "no", Space, "emoji">>

Subjects ==
    UNION { { s \in [1..n -> SubjectChunks] : WellChunked(s) } :
            n \in 0..MaxSubjectLen }
    \cup { NoEmojiSubject }

NoLabel == [threw |-> FALSE, label |-> "", error |-> NoThrow]

Classify ==
    /\ labelPc = "start"
    /\ labelOut' = getCommitLabel(subject)
    /\ labelPc' = "done"
    /\ UNCHANGED <<subject, relVars, parseVars, laterVars>>

\* ------------------------------------------------- versioning.ts: semver
\* Version strings are sequences of characters; an alphanumeric identifier
\* without digits at its head ("alpha") is one chunk.
Dot == "."
Hyphen == "-"
Plus == "+"
VPrefix == "v"
DigitChars == <<"0", "1", "2", "3", "4", "5", "6", "7", "8", "9">>
Digits == { DigitChars[k] : k \in 1..10 }
IdWords == {"alpha", "b"}

DigitValue(c) == (CHOOSE k \in 1..10 : DigitChars[k] = c) - 1

\* String(n) of a non-negative integer.
RECURSIVE ToDigits(_)
ToDigits(n) ==
    IF n < 10 THEN <<DigitChars[n + 1]>>
    ELSE ToDigits(n \div 10) \o <<DigitChars[(n % 10) + 1]>>

\* parseInt of a run of digits.
RECURSIVE FromDigits(_)
FromDigits(ds) ==
    IF ds = <<>> THEN 0
    ELSE 10 * FromDigits(SubSeq(ds, 1, Len(ds) - 1)) + DigitValue(ds[Len(ds)])

AllDigits(ds) == ds # <<>> /\ \A k \in 1..Len(ds) : ds[k] \in Digits

\* NUMERICIDENTIFIER: 0|[1-9]\d*
IsNumericIdentifier(ds) == AllDigits(ds) /\ (Len(ds) = 1 \/ ds[1] # "0")

\* NONNUMERICIDENTIFIER: \d*[a-zA-Z-][a-zA-Z0-9-]*
IsNonNumericIdentifier(id) ==
    /\ \A k \in 1..Len(id) : id[k] \in Digits \cup IdWords \cup {Hyphen}
    /\ \E k \in 1..Len(id) : id[k] \in IdWords \cup {Hyphen}

\* BUILDIDENTIFIER: [0-9A-Za-z-]+
IsBuildIdentifier(id) ==
    /\ id # <<>>
    /\ \A k \in 1..Len(id) : id[k] \in Digits \cup IdWords \cup {Hyphen}

\* s.split(sep)
RECURSIVE SplitOn(_, _, _, _)
SplitOn(s, sep, cur, acc) ==
    IF s = <<>> THEN Append(acc, cur)
    ELSE IF Head(s) = sep THEN SplitOn(Tail(s), sep, <<>>, Append(acc, cur))
    ELSE SplitOn(Tail(s), sep, Append(cur, Head(s)), acc)

\* parts.join(sep)
RECURSIVE Join(_, _)
Join(parts, sep) ==
    IF parts = <<>> THEN <<>>
    ELSE IF Len(parts) = 1 THEN parts[1]
    ELSE parts[1] \o <<sep>> \o Join(Tail(parts), sep)

\* The first position from p on whose character is not in cs (Len + 1 if none).
RECURSIVE SkipWhile(_, _, _)
SkipWhile(s, p, cs) ==
    IF p > Len(s) THEN p
    ELSE IF s[p] \in cs THEN SkipWhile(s, p + 1, cs)
    ELSE p

\* A prerelease identifier: a number (numeric) or a string, with its text.
NumberId(n) == [numeric |-> TRUE, text |-> ToDigits(n)]
StringId(t) == [numeric |-> FALSE, text |-> t]

SemVer(major, minor, patch, prerelease, build) ==
    [major |-> major, minor |-> minor, patch |-> patch,
     prerelease |-> prerelease, build |-> build]

NoSemVer == SemVer(0, 0, 0, <<>>, <<>>)

\* parse(version) of std/semver: trim, then the FULL pattern
\* ^v?MAJOR.MINOR.PATCH(-PRERELEASE)?(+BUILD)?$, numeric prerelease
\* identifiers becoming numbers.
parse(text) ==
    LET t == Trim(text)
        u == IF t # <<>> /\ Head(t) = VPrefix THEN Tail(t) ELSE t
        p == SkipWhile(u, 1, Digits \cup {Dot})
        main == SplitOn(SubSeq(u, 1, p - 1), Dot, <<>>, <<>>)
        rest == SubSeq(u, p, Len(u))
        hasPre == rest # <<>> /\ Head(rest) = Hyphen
        q == IF hasPre THEN SkipWhile(rest, 2, Digits \cup IdWords \cup {Hyphen, Dot})
             ELSE 1
        pre == IF hasPre THEN SplitOn(SubSeq(rest, 2, q - 1), Dot, <<>>, <<>>)
               ELSE <<>>
        after == SubSeq(rest, q, Len(rest))
        hasBuild == after # <<>> /\ Head(after) = Plus
        build == IF hasBuild THEN SplitOn(Tail(after), Dot, <<>>, <<>>) ELSE <<>>
        ok == /\ Len(main) = 3
              /\ \A k \in 1..3 : IsNumericIdentifier(main[k])
              /\ \A k \in 1..Len(pre) :
                    IsNumericIdentifier(pre[k]) \/ IsNonNumericIdentifier(pre[k])
              /\ \A k \in 1..Len(build) : IsBuildIdentifier(build[k])
              /\ after = <<>> \/ hasBuild
    IN  IF ~ok THEN [threw |-> TRUE, semver |-> NoSemVer]
        ELSE [threw |-> FALSE,
              semver |->
                SemVer(FromDigits(main[1]), FromDigits(main[2]), FromDigits(main[3]),
                       [k \in 1..Len(pre) |->
                          [numeric |-> IsNumericIdentifier(pre[k]), text |-> pre[k]]],
                       build)]

\* Mutant: the build metadata left out of the text.
format_NoBuild(semver) ==
    LET primary == ToDigits(semver.major) \o <<Dot>> \o ToDigits(semver.minor)
                   \o <<Dot>> \o ToDigits(semver.patch)
        pre == Join([k \in 1..Len(semver.prerelease) |-> semver.prerelease[k].text], Dot)
    IN  IF pre = <<>> THEN primary ELSE primary \o <<Hyphen>> \o pre

\* format(semver) of std/semver, style "full".
format(semver) ==
    LET primary == ToDigits(semver.major) \o <<Dot>> \o ToDigits(semver.minor)
                   \o <<Dot>> \o ToDigits(semver.patch)
        pre == Join([k \in 1..Len(semver.prerelease) |-> semver.prerelease[k].text], Dot)
        build == Join(semver.build, Dot)
        rel == IF pre = <<>> THEN primary ELSE primary \o <<Hyphen>> \o pre
    IN  IF build = <<>> THEN rel ELSE rel \o <<Plus>> \o build

\* Mutant: the lower parts kept when a higher one is bumped.
increment_NoReset(sv, releaseType) ==
    IF releaseType = "major"
    THEN [sv EXCEPT !.major = @ + 1, !.prerelease = <<>>]
    ELSE IF releaseType = "minor"
    THEN [sv EXCEPT !.minor = @ + 1, !.prerelease = <<>>]
    ELSE [sv EXCEPT !.patch = @ + 1, !.prerelease = <<>>]

\* increment(version, release) of std/semver: a new object; a prerelease of
\* the bumped version is promoted instead of bumped.
increment(sv, releaseType) ==
    IF releaseType = "major"
    THEN SemVer(IF sv.prerelease = <<>> \/ sv.minor # 0 \/ sv.patch # 0
                THEN sv.major + 1 ELSE sv.major,
                0, 0, <<>>, sv.build)
    ELSE IF releaseType = "minor"
    THEN SemVer(sv.major,
                IF sv.prerelease = <<>> \/ sv.patch # 0
                THEN sv.minor + 1 ELSE sv.minor,
                0, <<>>, sv.build)
    ELSE SemVer(sv.major, sv.minor,
                IF sv.prerelease = <<>> THEN sv.patch + 1 ELSE sv.patch,
                <<>>, sv.build)

\* --------------------------------------------- versioning.ts: VersionObject
ReleaseTypes == {"patch", "minor", "major"}

\* Mutant: two release types named for each other's method.
NEXT_VERSION_METHOD_BY_RELEASE_TYPE_Swapped ==
    [patch |-> "getNextPatch", minor |-> "getNextMajor", major |-> "getNextMinor"]

NEXT_VERSION_METHOD_BY_RELEASE_TYPE ==
    [patch |-> "getNextPatch", minor |-> "getNextMinor", major |-> "getNextMajor"]

getMethodNameByReleaseType(type) == NEXT_VERSION_METHOD_BY_RELEASE_TYPE[type]

\* The constructor's argument: a string or a SemVer object.
FromString(text) == [isString |-> TRUE, text |-> text, semver |-> NoSemVer]
FromSemVer(semver) == [isString |-> FALSE, text |-> <<>>, semver |-> semver]

NoVersionObject == [version |-> <<>>, tag |-> <<>>, semver |-> NoSemVer]

\* Mutant: the tag made from the formatted version.
VersionObject_FormattedTag(rawVersion) ==
    IF rawVersion.isString
    THEN LET r == parse(rawVersion.text) IN
         IF r.threw THEN [threw |-> TRUE, obj |-> NoVersionObject]
         ELSE [threw |-> FALSE,
               obj |-> [version |-> rawVersion.text,
                        tag |-> <<VPrefix>> \o format(r.semver),
                        semver |-> r.semver]]
    ELSE [threw |-> FALSE,
          obj |-> [version |-> format(rawVersion.semver),
                   tag |-> <<VPrefix>> \o format(rawVersion.semver),
                   semver |-> rawVersion.semver]]

\* lines 61-71: new VersionObject(rawVersion)
VersionObject(rawVersion) ==
    IF rawVersion.isString
    THEN LET r == parse(rawVersion.text) IN
         IF r.threw THEN [threw |-> TRUE, obj |-> NoVersionObject]
         ELSE [threw |-> FALSE,
               obj |-> [version |-> rawVersion.text,
                        tag |-> <<VPrefix>> \o rawVersion.text,
                        semver |-> r.semver]]
    ELSE [threw |-> FALSE,
          obj |-> [version |-> format(rawVersion.semver),
                   tag |-> <<VPrefix>> \o format(rawVersion.semver),
                   semver |-> rawVersion.semver]]

getNextPatch(this) == VersionObject(FromSemVer(increment(this.semver, "patch"))).obj

getNextMinor(this) == VersionObject(FromSemVer(increment(this.semver, "minor"))).obj

getNextMajor(this) == VersionObject(FromSemVer(increment(this.semver, "major"))).obj

\* this[name]()
CallMethod(this, name) ==
    IF name = "getNextPatch" THEN getNextPatch(this)
    ELSE IF name = "getNextMinor" THEN getNextMinor(this)
    ELSE getNextMajor(this)

getNextVersion(this, type) == CallMethod(this, getMethodNameByReleaseType(type))

\* ------------------------------------------- VersionObject: inputs, steps
PartValues == 0..MaxPart \cup {9, 10}

Prereleases == { <<>>, <<StringId(<<"alpha">>)>>, <<NumberId(1)>>, <<StringId(<<"1">>)>> }

Builds == { <<>>, << <<"b">> >> }

Triples == { SemVer(a, b, c, <<>>, <<>>) : a, b, c \in PartValues }

\* Versions with prerelease or build metadata.
Decorated ==
    { SemVer(a, b, c, p, m) : a, b, c \in 0..1, p \in Prereleases, m \in Builds }

SemVers == Triples \cup Decorated

\* Texts parse accepts that format does not produce, and texts it rejects.
OtherTexts ==
    { <<VPrefix>> \o format(v) : v \in Decorated }
    \cup { <<Space>> \o format(v) \o <<Space>> : v \in Decorated }
    \cup { <<"0", "1", Dot, "2", Dot, "3">>, <<"1", Dot, "2">>, <<>>,
           <<"1", Dot, "2", Dot, "3", Hyphen>>, <<"1", Dot, "2", Dot, "3", Hyphen, "0", "1">> }

\* Canonical texts written out.
SampleTexts ==
    { <<"1", Dot, "2", Dot, "3">>,
      <<"1", Dot, "2", Dot, "3", Hyphen, "alpha">>,
      <<"1", Dot, "2", Dot, "3", Plus, "b">>,
      <<"1", "0", Dot, "0", Dot, "0", Hyphen, "alpha", Dot, "1", Plus, "b", Dot, "2">> }

RawVersions ==
    { FromSemVer(v) : v \in SemVers }
    \cup { FromString(t) : t \in SampleTexts }
    \cup { FromString(format(v)) : v \in SemVers }
    \cup { FromString(t) : t \in OtherTexts }

NoCall == [op |-> "", type |-> "", receiver |-> 0, result |-> 0]

\* line 61: new VersionObject(verRaw)
Construct ==
    /\ verPc = "start"
    /\ LET r == VersionObject(verRaw) IN
       IF r.threw
       THEN /\ verPc' = "failed"
            /\ UNCHANGED objs
       ELSE /\ verPc' = "ready"
            /\ objs' = <<r.obj>>
    /\ UNCHANGED <<verRaw, verCall, notVerVars>>

\* Mutant: the receiver updated in place and returned.
Invoke_InPlace(r, op, type, result) ==
    /\ objs' = [objs EXCEPT ![r] = result]
    /\ verCall' = [op |-> op, type |-> type, receiver |-> r, result |-> r]

\* return new VersionObject(...): a new instance; the receiver is not written.
Invoke(r, op, type, result) ==
    /\ objs' = Append(objs, result)
    /\ verCall' = [op |-> op, type |-> type, receiver |-> r, result |-> Len(objs) + 1]

\* lines 100-102
GetNextPatch ==
    /\ verPc = "ready"
    /\ Len(objs) < MaxObjects
    /\ \E r \in 1..Len(objs) : Invoke(r, "getNextPatch", "patch", getNextPatch(objs[r]))
    /\ UNCHANGED <<verRaw, verPc, notVerVars>>

\* lines 121-123
GetNextMinor ==
    /\ verPc = "ready"
    /\ Len(objs) < MaxObjects
    /\ \E r \in 1..Len(objs) : Invoke(r, "getNextMinor", "minor", getNextMinor(objs[r]))
    /\ UNCHANGED <<verRaw, verPc, notVerVars>>

\* lines 142-144
GetNextMajor ==
    /\ verPc = "ready"
    /\ Len(objs) < MaxObjects
    /\ \E r \in 1..Len(objs) : Invoke(r, "getNextMajor", "major", getNextMajor(objs[r]))
    /\ UNCHANGED <<verRaw, verPc, notVerVars>>

\* lines 79-81
GetNextVersion ==
    /\ verPc = "ready"
    /\ Len(objs) < MaxObjects
    /\ \E r \in 1..Len(objs), type \in ReleaseTypes :
          Invoke(r, "getNextVersion", type, getNextVersion(objs[r], type))
    /\ UNCHANGED <<verRaw, verPc, notVerVars>>

\* ------------------------------------------------------ deploy.ts: patterns
\* Paths and patterns are sequences of characters.
Slash == "/"
Comma == ","
Bar == "|"
Caret == "^"
Star == "*"

\* line 11: "^.git, ^.vscode, .env*"
DEFAULT_EXCLUSIONS ==
    <<Caret, Dot, "g", "i", "t", Comma, Space,
      Caret, Dot, "v", "s", "c", "o", "d", "e", Comma, Space,
      Dot, "e", "n", "v", Star>>

\* String(undefined)
UndefinedText == <<"u", "n", "d", "e", "f", "i", "n", "e", "d">>

\* The option deployExclusions: absent, or a text.
NoOption == [defined |-> FALSE, text |-> <<>>]
Option(text) == [defined |-> TRUE, text |-> text]

OptionText(opt) == IF opt.defined THEN opt.text ELSE UndefinedText

\* lines 30-32: (DEFAULT_EXCLUSIONS + ", " + opts.deployExclusions).split(",").map(trim)
RawExclusions(opt) ==
    LET text == DEFAULT_EXCLUSIONS \o <<Comma, Space>> \o OptionText(opt)
        parts == SplitOn(text, Comma, <<>>, <<>>)
    IN  [k \in 1..Len(parts) |-> Trim(parts[k])]

\* One atom of a pattern: a character or the wildcard, possibly starred.
RECURSIVE ParseAtoms(_)
ParseAtoms(p) ==
    IF p = <<>> THEN <<>>
    ELSE LET star == Len(p) >= 2 /\ p[2] = Star
             atom == [any |-> Head(p) = Dot, ch |-> Head(p), star |-> star]
         IN  <<atom>> \o ParseAtoms(SubSeq(p, IF star THEN 3 ELSE 2, Len(p)))

\* A star with nothing to repeat is a SyntaxError.
RECURSIVE ValidAtoms(_)
ValidAtoms(p) ==
    IF p = <<>> THEN TRUE
    ELSE IF Head(p) = Star THEN FALSE
    ELSE ValidAtoms(SubSeq(p, IF Len(p) >= 2 /\ p[2] = Star THEN 3 ELSE 2, Len(p)))

Unanchored(p) == IF p # <<>> /\ Head(p) = Caret THEN Tail(p) ELSE p

\* new RegExp(source): the alternatives of the source.
RegExp(source) ==
    LET alts == SplitOn(source, Bar, <<>>, <<>>) IN
    [threw |-> \E k \in 1..Len(alts) : ~ValidAtoms(Unanchored(alts[k])),
     alternatives |->
        [k \in 1..Len(alts) |->
            [anchored |-> alts[k] # <<>> /\ Head(alts[k]) = Caret,
             atoms |-> ParseAtoms(Unanchored(alts[k]))]]]

Fits(atom, c) == atom.any \/ atom.ch = c

\* The atoms match s from position pos on.
RECURSIVE MatchHere(_, _, _)
MatchHere(atoms, s, pos) ==
    IF atoms = <<>> THEN TRUE
    ELSE IF Head(atoms).star
    THEN \/ MatchHere(Tail(atoms), s, pos)
         \/ /\ pos <= Len(s)
            /\ Fits(Head(atoms), s[pos])
            /\ MatchHere(atoms, s, pos + 1)
    ELSE /\ pos <= Len(s)
         /\ Fits(Head(atoms), s[pos])
         /\ MatchHere(Tail(atoms), s, pos + 1)

\* regex.test(s)
Test(regex, s) ==
    \E k \in 1..Len(regex) :
        IF regex[k].anchored THEN MatchHere(regex[k].atoms, s, 1)
        ELSE \E pos \in 1..(Len(s) + 1) : MatchHere(regex[k].atoms, s, pos)

\* ------------------------------------------------ deploy.ts: content hash
HexChars == <<"0", "1", "2", "3", "4", "5", "6", "7", "8", "9",
              "a", "b", "c", "d", "e", "f">>

\* b.toString(16)
RECURSIVE ToString16(_)
ToString16(b) ==
    IF b < 16 THEN <<HexChars[b + 1]>>
    ELSE ToString16(b \div 16) \o <<HexChars[(b % 16) + 1]>>

\* text.padStart(2, "0")
PadStart2(text) == IF Len(text) < 2 THEN <<"0">> \o text ELSE text

\* new TextEncoder().encode(text), for the characters of the prefix.
EncodeChar(c) ==
    IF c \in Digits THEN 48 + DigitValue(c)
    ELSE IF c = "b" THEN 98
    ELSE IF c = "l" THEN 108
    ELSE IF c = "o" THEN 111
    ELSE IF c = Space THEN 32
    ELSE 0

Encode(text) == [k \in 1..Len(text) |-> EncodeChar(text[k])]

Nul == "NUL"

RECURSIVE WeightedSum(_, _, _)
WeightedSum(m, k, j) ==
    IF j > Len(m) THEN 0 ELSE (j + k) * (m[j] + 1) + WeightedSum(m, k, j + 1)

\* crypto.subtle.digest("SHA-1", m): a deterministic stand-in with SHA-1's
\* interface, bytes in and DigestLen bytes out.
Sha1(m) == [k \in 1..DigestLen |-> (WeightedSum(m, k, 1) + 7 * k * Len(m)) % 256]

\* Mutant: the prefix without its closing NUL.
calculateGitSha1_NoNul(bytes) ==
    LET prefix == <<"b", "l", "o", "b", Space>> \o ToDigits(Len(bytes))
        fullBytes == Encode(prefix) \o bytes
        hashBytes == Sha1(fullBytes)
    IN  Flatten([k \in 1..Len(hashBytes) |-> PadStart2(ToString16(hashBytes[k]))])

\* lines 106-117
calculateGitSha1(bytes) ==
    LET prefix == <<"b", "l", "o", "b", Space>> \o ToDigits(Len(bytes)) \o <<Nul>>
        fullBytes == Encode(prefix) \o bytes
        hashBytes == Sha1(fullBytes)
    IN  Flatten([k \in 1..Len(hashBytes) |-> PadStart2(ToString16(hashBytes[k]))])

\* --------------------------------------------- deploy.ts: createManifest
\* A directory entry with, for a file, its bytes and, for a directory, its
\* listing in the order Deno.readDir yields it.
File(name, data) == [name |-> name, kind |-> "file", data |-> data, children |-> <<>>]
Dir(name, children) ==
    [name |-> name, kind |-> "directory", data |-> <<>>, children |-> children]
Symlink(name) == [name |-> name, kind |-> "symlink", data |-> <<>>, children |-> <<>>]

RootDir == <<Dot, Slash>>

\* join(dir, name) of std/path
join(dir, name) == IF dir = RootDir THEN name ELSE dir \o <<Slash>> \o name

\* Mutant: only a name that begins with ".git".
IncludesDotGit_Prefix(name) ==
    Len(name) >= 4 /\ SubSeq(name, 1, 4) = <<Dot, "g", "i", "t">>

\* name.includes(".git")
IncludesDotGit(name) ==
    \E p \in 1..Len(name) :
        p + 3 <= Len(name) /\ SubSeq(name, p, p + 3) = <<Dot, "g", "i", "t">>

EmptyMap == [x \in {} |-> x]

\* What a call has done so far: the side table, the calls of mapping.set in
\* their order, and the paths read.
NoEffects == [mapping |-> EmptyMap, sets |-> <<>>, readDirs |-> {}, readFiles |-> {}]

FileEntry(gitSha1, size) == [kind |-> "file", gitSha1 |-> gitSha1, size |-> size]
DirectoryEntry(entries) == [kind |-> "directory", entries |-> entries]

\* The text after the last "/" of a path.
RECURSIVE LastSegment(_)
LastSegment(path) ==
    IF \E p \in 1..Len(path) : path[p] = Slash
    THEN LastSegment(Tail(path))
    ELSE path

\* Mutant: the entry's name tested instead of its path.
shouldExclude_ByName(exclusionPattern, path) == Test(exclusionPattern, LastSegment(path))

\* line 128: exclusionPattern.test(path)
shouldExclude(exclusionPattern, path) == Test(exclusionPattern, path)

RECURSIVE ManifestLoop(_, _, _, _, _, _)
RECURSIVE createManifest(_, _, _, _)

\* lines 126-152: the loop from the k-th entry of the listing on.
ManifestLoop(dir, listing, k, exclusionPattern, manifest, effects) ==
    IF k > Len(listing) THEN [manifest |-> manifest, effects |-> effects]
    ELSE
      LET dirEntry == listing[k]
          path == join(dir, dirEntry.name)
      IN
      IF shouldExclude(exclusionPattern, path)
      THEN ManifestLoop(dir, listing, k + 1, exclusionPattern, manifest, effects)
      ELSE IF dirEntry.kind = "file"
      THEN LET gitSha1 == calculateGitSha1(dirEntry.data)
               after == [effects EXCEPT
                           !.readFiles = @ \cup {path},
                           !.mapping = (gitSha1 :> path) @@ @,
                           !.sets = Append(@, [gitSha1 |-> gitSha1, path |-> path])]
           IN  ManifestLoop(dir, listing, k + 1, exclusionPattern,
                            (dirEntry.name :> FileEntry(gitSha1, Len(dirEntry.data)))
                                @@ manifest,
                            after)
      ELSE IF dirEntry.kind = "directory"
      THEN IF IncludesDotGit(dirEntry.name)
           THEN ManifestLoop(dir, listing, k + 1, exclusionPattern, manifest, effects)
           ELSE LET sub == createManifest(path, dirEntry.children, exclusionPattern,
                                          effects)
                IN  ManifestLoop(dir, listing, k + 1, exclusionPattern,
                                 (dirEntry.name :> DirectoryEntry(sub.manifest))
                                     @@ manifest,
                                 sub.effects)
      ELSE ManifestLoop(dir, listing, k + 1, exclusionPattern,
                        (dirEntry.name :> Undefined) @@ manifest, effects)

\* Mutant: the first entry of a listing passed over.
createManifest_SkipFirst(dir, listing, exclusionPattern, effects) ==
    ManifestLoop(dir, listing, 2, exclusionPattern, EmptyMap,
                 [effects EXCEPT !.readDirs = @ \cup {dir}])

\* lines 119-155: createManifest(dir, exclusionPattern, mapping), with the
\* listing Deno.readDir(dir) yields and the effects so far; gives the
\* manifest and the effects.
createManifest(dir, listing, exclusionPattern, effects) ==
    ManifestLoop(dir, listing, 1, exclusionPattern, EmptyMap,
                 [effects EXCEPT !.readDirs = @ \cup {dir}])

\* ------------------------------------------- deploy.ts: getFilesToDeploy
\* include(path, undefined, undefined, skip) of std/fs/walk
Include(path, skip) == ~\E k \in 1..Len(skip) : Test(skip[k], path)

\* walkSync(root, { includeDirs: false, includeSymlinks: false, skip }), with
\* the listing Deno.readDirSync(root) yields: the files walked, in order.
RECURSIVE walkSync(_, _, _)
walkSync(root, listing, skip) ==
    IF ~Include(root, skip) THEN <<>>
    ELSE Flatten([k \in 1..Len(listing) |->
            LET path == join(root, listing[k].name) IN
            IF listing[k].kind = "symlink" THEN <<>>
            ELSE IF listing[k].kind = "directory"
            THEN walkSync(path, listing[k].children, skip)
            ELSE IF Include(path, skip)
            THEN <<[path |-> path, bytes |-> listing[k].data]>>
            ELSE <<>>])

\* lines 84-93: the bytes of every file walked
getFilesToDeploy(listing, skip) == walkSync(RootDir, listing, skip)

\* ---------------------------------------------- deploy.ts: inputs, steps
GitDir == Dir(<<Dot, "g", "i", "t">>, <<File(<<"c">>, <<2>>)>>)

EnvFile == File(<<Dot, "e", "n", "v">>, <<2>>)

\* Entries the root directory may hold.
RootEntries ==
    { File(<<"a">>, <<1>>),
      File(<<"b">>, <<1>>),
      File(<<"e">>, <<>>),
      File(<<"t">>, <<7, 7, 7, 7, 7, 7, 7, 7, 7, 7>>),
      EnvFile,
      GitDir,
      Symlink(<<"l">>),
      Dir(<<"x", Dot, "g", "i", "t">>, <<File(<<"c">>, <<2>>)>>),
      Dir(<<"d">>, <<File(<<"a">>, <<255, 0>>), Dir(<<"d">>, <<File(<<"b">>, <<1>>)>>)>>),
      Dir(<<"s">>, <<File(<<"a">>, <<1>>), GitDir, EnvFile>>),
      Dir(<<"s">>, <<GitDir, EnvFile, File(<<"a">>, <<1>>)>>) }

\* Listings of the root directory: no name twice.
RootListings ==
    UNION { { l \in [1..n -> RootEntries] :
                \A x, y \in 1..n : x # y => l[x].name # l[y].name } :
            n \in 0..MaxEntries }

\* Values of the option deployExclusions.
Options ==
    { NoOption,
      Option(<<>>),
      Option(<<"d">>),
      Option(<<"s", Slash, "a">>),
      Option(<<"b", Comma, Space, Caret, "s">>),
      Option(<<Star, Dot, "t">>) }

NoRegex == <<>>

\* lines 30-35: the exclusion pattern and the empty side table
BuildPattern ==
    /\ deployPc = "start"
    /\ LET r == RegExp(Join(RawExclusions(deployExclusions), Bar)) IN
       IF r.threw
       THEN /\ deployPc' = "failed"
            /\ UNCHANGED <<exclusionRegex, exclusions>>
       ELSE /\ deployPc' = "pattern"
            /\ exclusionRegex' = r.alternatives
            /\ exclusions' = [k \in 1..Len(RawExclusions(deployExclusions)) |->
                                 RegExp(RawExclusions(deployExclusions)[k]).alternatives]
    /\ UNCHANGED <<fsRoot, deployExclusions, deployManifest, deployEffects,
                   filesContent, notDeployVars>>

\* line 36: getFilesToDeploy(exclusions)
GetFilesToDeploy ==
    /\ deployPc = "pattern"
    /\ filesContent' = getFilesToDeploy(fsRoot, exclusions)
    /\ deployPc' = "files"
    /\ UNCHANGED <<fsRoot, deployExclusions, exclusionRegex, exclusions, deployManifest,
                   deployEffects, notDeployVars>>

\* line 37: createManifest("./", exclusionRegex, files)
CreateManifest ==
    /\ deployPc = "files"
    /\ LET r == createManifest(RootDir, fsRoot, exclusionRegex, NoEffects) IN
       /\ deployManifest' = r.manifest
       /\ deployEffects' = r.effects
    /\ deployPc' = "done"
    /\ UNCHANGED <<fsRoot, deployExclusions, exclusionRegex, exclusions, filesContent,
                   notDeployVars>>

\* ------------------------------------------- CommitSchema.parse on its own
RawTimestamps == { [numeric |-> TRUE, n |-> 0], [numeric |-> TRUE, n |-> 5],
                   [numeric |-> TRUE, n |-> 6], [numeric |-> FALSE, n |-> 7] }

RawSubjectChunks == {Glyph, Space, Colon, "Update", "memo"}

RawSubjects ==
    UNION { { s \in [1..k -> RawSubjectChunks] : WellChunked(s) } :
            k \in 0..MaxRawSubjectLen }

RawCommits ==
    { [threw |-> FALSE, hash |-> <<"h1">>, timestamp |-> t, subject |-> s] :
        t \in RawTimestamps, s \in RawSubjects }

NoSchemaOut == [threw |-> FALSE, commit |-> NoCommit]

SchemaParse ==
    /\ schemaPc = "start"
    /\ schemaOut' = CommitSchemaParse(schemaIn)
    /\ schemaPc' = "done"
    /\ UNCHANGED <<schemaIn, notSchemaVars>>

\* ----------------------------------- compareCommitsByTimestamp on its own
ComparedCommits == CommitPool \cup {RootCommit, LaterCommit}

Compare ==
    /\ cmpPc = "start"
    /\ cmpOut' = compareCommitsByTimestamp(cmpA, cmpB)
    /\ cmpPc' = "done"
    /\ UNCHANGED <<cmpA, cmpB, notCmpVars>>

\* ------------------------------- retrieveAllCommits and retrieveFirstCommit
\* parseGitLogOutput as a function of the text: the commits, or the error of
\* the first fragment that does not parse.
parseGitLogOutput(text) ==
    LET frags == compact(Split(text))
        rs == [k \in 1..Len(frags) |-> parseCommit(<<Marker>> \o frags[k])]
    IN  IF \E k \in 1..Len(rs) : rs[k].threw
        THEN [threw |-> TRUE, commits |-> <<>>,
              error |-> rs[CHOOSE k \in 1..Len(rs) :
                             rs[k].threw /\ \A j \in 1..(k - 1) : ~rs[j].threw].error]
        ELSE [threw |-> FALSE, commits |-> [k \in 1..Len(rs) |-> rs[k].commit],
              error |-> NoParseError]

\* What `git log` prints: up to MaxPieces entries in any order, one of them
\* with a timestamp the schema rejects.
LogEntries == {
    <<Marker, Hdr1, "Update", End, NL>>,
    <<Marker, Hdr2, "Update", End, NL>>,
    <<Marker, Hdr4, "Message", End, NL>>,
    <<Marker, Hdr5, "Update", End, NL>>,
    <<Marker, HdrDate, "Update", End, NL>> }

GitLogs ==
    UNION { { Flatten(ps) : ps \in [1..k -> LogEntries] } : k \in 0..MaxPieces }

\* lines 255-267
RetrieveAllCommits ==
    /\ retrPc = "start"
    /\ retrCall' = "retrieveAllCommits"
    /\ LET p == parseGitLogOutput(gitLog) IN
       IF p.threw
       THEN /\ retrThrown' = p.error
            /\ retrPc' = "failed"
            /\ UNCHANGED retrAll
       ELSE /\ retrAll' = retrieveAllCommits(p.commits)
            /\ retrPc' = "done"
            /\ UNCHANGED retrThrown
    /\ UNCHANGED <<gitLog, retrFirst, notRetrVars>>

\* lines 277-291
RetrieveFirstCommit ==
    /\ retrPc = "start"
    /\ retrCall' = "retrieveFirstCommit"
    /\ LET p == parseGitLogOutput(gitLog) IN
       IF p.threw
       THEN /\ retrThrown' = p.error
            /\ retrPc' = "failed"
            /\ UNCHANGED retrFirst
       ELSE /\ retrFirst' = retrieveFirstCommit(p.commits)
            /\ retrPc' = "done"
            /\ UNCHANGED retrThrown
    /\ UNCHANGED <<gitLog, retrAll, notRetrVars>>

\* ---------------------------------------------------------- specifications
ReleaseIdle ==
    /\ version = EmptyString
    /\ commits = <<>>
    /\ firstParentLog = <<>>
    /\ i = 0
    /\ release = NoRelease
    /\ pc = "idle"
    /\ returned = NoRelease
    /\ thrown = NoThrow
    /\ classified = <<>>
    /\ fallbackCalls = 0

LabelIdle ==
    /\ subject = EmptyString
    /\ labelPc = "idle"
    /\ labelOut = NoLabel

ParseIdle ==
    /\ output = EmptyString
    /\ rawCommits = <<>>
    /\ idx = 0
    /\ parsed = <<>>
    /\ parsePc = "idle"
    /\ parseReturned = <<>>
    /\ parseThrown = NoParseError

SchemaIdle ==
    /\ schemaIn = [threw |-> FALSE, hash |-> <<>>,
                    timestamp |-> [numeric |-> TRUE, n |-> 0], subject |-> <<>>]
    /\ schemaPc = "idle"
    /\ schemaOut = NoSchemaOut

CmpIdle ==
    /\ cmpA = NoCommit
    /\ cmpB = NoCommit
    /\ cmpPc = "idle"
    /\ cmpOut = 0

VerIdle ==
    /\ verRaw = FromString(<<>>)
    /\ objs = <<>>
    /\ verPc = "idle"
    /\ verCall = NoCall

DeployIdle ==
    /\ fsRoot = <<>>
    /\ deployExclusions = NoOption
    /\ exclusionRegex = NoRegex
    /\ deployManifest = EmptyMap
    /\ deployEffects = NoEffects
    /\ deployPc = "idle"
    /\ exclusions = <<>>
    /\ filesContent = <<>>

RetrIdle ==
    /\ gitLog = EmptyString
    /\ retrPc = "idle"
    /\ retrCall = ""
    /\ retrAll = <<>>
    /\ retrFirst = Undefined
    /\ retrThrown = NoParseError

LaterIdle == SchemaIdle /\ CmpIdle /\ VerIdle /\ DeployIdle /\ RetrIdle

GitIdle == ReleaseIdle /\ LabelIdle /\ ParseIdle

InitRelease ==
    /\ version \in Versions
    /\ commits \in CommitLists
    /\ firstParentLog \in FirstParentLogs
    /\ i = 0
    /\ release = NoRelease
    /\ pc = "start"
    /\ returned = NoRelease
    /\ thrown = NoThrow
    /\ classified = <<>>
    /\ fallbackCalls = 0
    /\ LabelIdle
    /\ ParseIdle
    /\ LaterIdle

NextRelease == Enter \/ Iterate \/ LoopEnd \/ Fallback \/ Return

SpecRelease == InitRelease /\ [][NextRelease]_vars

InitLabel ==
    /\ subject \in Subjects
    /\ labelPc = "start"
    /\ labelOut = NoLabel
    /\ ReleaseIdle
    /\ ParseIdle
    /\ LaterIdle

NextLabel == Classify

SpecLabel == InitLabel /\ [][NextLabel]_vars

InitParse ==
    /\ output \in Outputs
    /\ rawCommits = <<>>
    /\ idx = 0
    /\ parsed = <<>>
    /\ parsePc = "start"
    /\ parseReturned = <<>>
    /\ parseThrown = NoParseError
    /\ ReleaseIdle
    /\ LabelIdle
    /\ LaterIdle

NextParse == ParseEnter \/ ParseMap \/ ParseReturn

SpecParse == InitParse /\ [][NextParse]_vars

InitSchema ==
    /\ schemaIn \in RawCommits
    /\ schemaPc = "start"
    /\ schemaOut = NoSchemaOut
    /\ GitIdle
    /\ CmpIdle
    /\ VerIdle
    /\ DeployIdle
    /\ RetrIdle

NextSchema == SchemaParse

SpecSchema == InitSchema /\ [][NextSchema]_vars

InitCompare ==
    /\ cmpA \in ComparedCommits
    /\ cmpB \in ComparedCommits
    /\ cmpPc = "start"
    /\ cmpOut = 0
    /\ GitIdle
    /\ SchemaIdle
    /\ VerIdle
    /\ DeployIdle
    /\ RetrIdle

NextCompare == Compare

SpecCompare == InitCompare /\ [][NextCompare]_vars

InitVersion ==
    /\ verRaw \in RawVersions
    /\ objs = <<>>
    /\ verPc = "start"
    /\ verCall = NoCall
    /\ GitIdle
    /\ SchemaIdle
    /\ CmpIdle
    /\ DeployIdle
    /\ RetrIdle

NextVersion ==
    Construct \/ GetNextPatch \/ GetNextMinor \/ GetNextMajor \/ GetNextVersion

SpecVersion == InitVersion /\ [][NextVersion]_vars

InitDeploy ==
    /\ fsRoot \in RootListings
    /\ deployExclusions \in Options
    /\ exclusionRegex = NoRegex
    /\ deployManifest = EmptyMap
    /\ deployEffects = NoEffects
    /\ deployPc = "start"
    /\ exclusions = <<>>
    /\ filesContent = <<>>
    /\ GitIdle
    /\ SchemaIdle
    /\ CmpIdle
    /\ VerIdle
    /\ RetrIdle

NextDeploy == BuildPattern \/ GetFilesToDeploy \/ CreateManifest

SpecDeploy == InitDeploy /\ [][NextDeploy]_vars

InitRetrieve ==
    /\ gitLog \in GitLogs
    /\ retrPc = "start"
    /\ retrCall = ""
    /\ retrAll = <<>>
    /\ retrFirst = Undefined
    /\ retrThrown = NoParseError
    /\ GitIdle
    /\ SchemaIdle
    /\ CmpIdle
    /\ VerIdle
    /\ DeployIdle

NextRetrieve == RetrieveAllCommits \/ RetrieveFirstCommit

SpecRetrieve == InitRetrieve /\ [][NextRetrieve]_vars

Init ==
    \/ InitRelease \/ InitLabel \/ InitParse \/ InitSchema \/ InitCompare
    \/ InitVersion \/ InitDeploy \/ InitRetrieve

Next ==
    \/ NextRelease \/ NextLabel \/ NextParse \/ NextSchema \/ NextCompare
    \/ NextVersion \/ NextDeploy \/ NextRetrieve

Spec == Init /\ [][Next]_vars

\* ================================================================== claims
\* A `:word:`-shaped token starts at position p of s.
TokenAt(s, p) ==
    /\ p >= 1
    /\ p + 2 <= Len(s)
    /\ s[p] = Colon
    /\ IsWord(s[p + 1])
    /\ s[p + 2] = Colon

HasToken(s) == \E p \in 1..Len(s) : TokenAt(s, p)

\* The commit at index k carries the label Release.
IsReleaseAt(k) ==
    LET l == getCommitLabel(commits[k].subject)
    IN  ~l.threw /\ l.label = "Release"

\* The index of the first Release-labelled commit, Len(commits) + 1 if none.
Boundary ==
    IF \E k \in 1..Len(commits) : IsReleaseAt(k)
    THEN CHOOSE k \in 1..Len(commits) :
            IsReleaseAt(k) /\ \A j \in 1..(k - 1) : ~IsReleaseAt(j)
    ELSE Len(commits) + 1

\* The index of the first commit without a marker, Len(commits) + 1 if none.
FirstUnmarked ==
    IF \E k \in 1..Len(commits) : ~HasToken(commits[k].subject)
    THEN CHOOSE k \in 1..Len(commits) :
            /\ ~HasToken(commits[k].subject)
            /\ \A j \in 1..(k - 1) : HasToken(commits[j].subject)
    ELSE Len(commits) + 1

InBucket(c, l) ==
    \E k \in 1..Len(release.changes[l].commits) :
        release.changes[l].commits[k] = c

IndexOf(c) == CHOOSE k \in 1..Len(commits) : commits[k] = c

EightLabels == {"Breaking Changes", "Added", "Security", "Fixed", "Removed",
                "Deprecated", "Changed", "Miscellaneous"}

\* C1: whenever getReleaseObject returns, the release's changes has exactly
\* the 8 non-Release keys, each with its own label and a commit list, the
\* buckets that received no commit included.
C1_EightBuckets ==
    pc = "done" =>
        /\ DOMAIN returned.changes = EightLabels
        /\ "Release" \notin DOMAIN returned.changes
        /\ \A l \in DOMAIN returned.changes :
              /\ returned.changes[l].label = l
              /\ returned.changes[l].commits \in Seq(CommitPool)

C1_Witness ==
    /\ pc = "done"
    /\ returned.changes["Added"].commits # <<>>
    /\ returned.changes["Security"].commits = <<>>
    /\ returned.changes["Miscellaneous"].commits = <<>>

\* C2: when the commit at index k is the first Release-labelled one, no
\* bucket holds the commit at index k or at any greater index.
C2_NothingFromBoundaryOn ==
    release # NoRelease =>
        LET b == Boundary
        IN  \A k \in b..Len(commits) : \A l \in DOMAIN release.changes :
                ~InBucket(commits[k], l)

C2_Witness ==
    /\ pc = "done"
    /\ Boundary = 2
    /\ Len(commits) = 3
    /\ InBucket(commits[1], "Added")

\* C3: stopping at a Release commit whose ref is "tag: v" followed by a
\* version X gives previous = X and previousTag = "v" + X.
C3_PreviousFromTag ==
    /\ \A c \in CommitPool :
          (c.ref # <<>> /\ Head(c.ref) = TagPrefix /\ Tail(c.ref) # <<>>)
              => extractVersionFromCommit(c) = Tail(c.ref)
    /\ LET b == Boundary IN
       (/\ pc \in {"after", "return", "done"}
        /\ b <= Len(commits)
        /\ commits[b].ref # <<>>
        /\ Head(commits[b].ref) = TagPrefix
        /\ Tail(commits[b].ref) # <<>>)
       => /\ release.previous = Tail(commits[b].ref)
          /\ release.previousTag = <<"v">> \o Tail(commits[b].ref)

C3_Witness ==
    /\ pc = "done"
    /\ Len(commits) = 3
    /\ Boundary = 3
    /\ commits[3].ref = <<"tag: v", "0.1.0">>
    /\ returned.previous = <<"0.1.0">>
    /\ returned.previousTag = <<"v", "0.1.0">>

\* C4: when the loop ends over a list without a Release-labelled commit
\* (the empty list too), previous and previousTag are both the hash of
\* the commit the first-commit lookup returns.
C4_FallbackToFirstCommit ==
    (pc \in {"return", "done"} /\ Boundary > Len(commits)) =>
        /\ release.previous = retrieveFirstCommit(firstParentLog).hash
        /\ release.previousTag = retrieveFirstCommit(firstParentLog).hash

C4_Witness ==
    /\ pc = "done"
    /\ commits = <<>>
    /\ returned.previous = <<"h0">>
    /\ returned.previousTag = <<"h0">>

\* C5: within every bucket the commits keep the relative order they have
\* in the input list.
C5_BucketOrder ==
    release # NoRelease =>
        \A l \in DOMAIN release.changes :
            LET b == release.changes[l].commits
            IN  \A x, y \in 1..Len(b) :
                    x < y => IndexOf(b[x]) < IndexOf(b[y])

C5_Witness ==
    /\ pc = "done"
    /\ Len(returned.changes["Added"].commits) = 2
    /\ Len(commits) = 3
    /\ returned.changes["Added"].commits = <<commits[1], commits[3]>>

\* C6: getCommitLabel returns a label for every subject with at least one
\* `:word:` token and throws "No emoji found :(" with the subject as cause
\* for every subject with none.
C6_TotalOrThrows ==
    labelPc = "done" =>
        IF HasToken(subject)
        THEN ~labelOut.threw /\ labelOut.label \in Labels
        ELSE /\ labelOut.threw
             /\ labelOut.error.message = "No emoji found :("
             /\ labelOut.error.cause = subject

C6_Witness ==
    /\ labelPc = "done"
    /\ subject = NoEmojiSubject
    /\ labelOut.threw

\* The label the table gives a code: that of the group listing it,
\* Miscellaneous when no group lists it.
TableLabel(w) ==
    IF \E g \in 1..Len(EMOJI_MAP) : w \in EMOJI_MAP[g].emojis
    THEN EMOJI_MAP[CHOOSE g \in 1..Len(EMOJI_MAP) : w \in EMOJI_MAP[g].emojis].label
    ELSE "Miscellaneous"

FirstToken(s) ==
    CHOOSE p \in 1..Len(s) :
        TokenAt(s, p) /\ \A q \in 1..(p - 1) : ~TokenAt(s, q)

\* C7: the label depends only on the first `:word:` token: it is the table
\* label of that code, and what follows the token never changes it.
C7_FirstTokenDecides ==
    (labelPc = "done" /\ ~labelOut.threw) =>
        /\ labelOut.label = TableLabel(subject[FirstToken(subject) + 1])
        /\ \A ch \in SubjectChunks :
              WellChunked(subject \o <<ch>>) =>
                  getCommitLabel(subject \o <<ch>>).label = labelOut.label

C7_Witness ==
    /\ labelPc = "done"
    /\ subject = <<Colon, "rainbow_flag", Colon, "bug", Colon>>
    /\ labelOut.label = "Miscellaneous"

\* C8: a commit without a marker before the release boundary makes the call
\* fail with the classification error and return nothing; every commit up
\* to the stopping point is classified, in order, and no commit older than
\* the boundary ever is.
C8_NoSilentSkip ==
    LET b == Boundary
        u == FirstUnmarked
    IN  /\ u < b =>
              /\ pc \notin {"after", "return", "done"}
              /\ returned = NoRelease
              /\ pc = "failed" =>
                    /\ thrown.message = "No emoji found :("
                    /\ thrown.cause = commits[u].subject
        /\ \A k \in 1..Len(classified) :
              classified[k] = k /\ k <= b /\ k <= u
        /\ pc \in {"after", "return", "done"} =>
              /\ Len(classified) = IF b <= Len(commits) THEN b ELSE Len(commits)
              /\ \A k \in 1..(b - 1) :
                    InBucket(commits[k], getCommitLabel(commits[k].subject).label)

C8_Witness ==
    /\ pc = "failed"
    /\ Len(commits) = 3
    /\ FirstUnmarked = 2
    /\ Boundary = 3
    /\ classified = <<1, 2>>
    /\ returned = NoRelease

\* The positions of the marker in the log text.
MarkerPositions == { p \in 1..Len(output) : output[p] = Marker }

\* The k-th marker position.
MarkerAt(k) ==
    CHOOSE p \in MarkerPositions :
        Cardinality({ q \in MarkerPositions : q < p }) = k - 1

\* What follows the marker at p, up to the next marker or the end.
EntryAfter(p) ==
    LET later == { q \in MarkerPositions : q > p }
        stop == IF later = {} THEN Len(output) + 1
                ELSE CHOOSE q \in later : \A r \in later : q <= r
    IN  SubSeq(output, p + 1, stop - 1)

\* A log entry after its marker: a header with an epoch timestamp, the
\* subject's text, in which newlines may stand, End, and the newlines that
\* separate it from the next entry.
IsEntry(e) ==
    /\ Len(e) >= 2
    /\ e[1] \in {Hdr1, Hdr2}
    /\ \E c \in 2..Len(e) :
          /\ e[c] = End
          /\ \A k \in 2..(c - 1) : e[k] \in StringChunks \cup {NL}
          /\ \A k \in (c + 1)..Len(e) : e[k] = NL

\* The text is a run of log entries, each starting at a marker.
IsEntryLog ==
    /\ output # <<>> => output[1] = Marker
    /\ \A p \in MarkerPositions : IsEntry(EntryAfter(p))

\* Some field of some entry holds a newline.
NewlineInField ==
    \E p \in MarkerPositions :
        \E k \in 1..Len(EntryAfter(p)) : \E c \in (k + 1)..Len(EntryAfter(p)) :
            EntryAfter(p)[k] = NL /\ EntryAfter(p)[c] = End

\* C9: parseGitLogOutput returns exactly one commit per log entry, in input
\* order, an entry starting at each marker and never at a newline: entries
\* with newlines in their fields yield one commit each, and the empty text
\* yields the empty list.
C9_OneCommitPerEntry ==
    IsEntryLog =>
        /\ parsePc # "failed"
        /\ parsePc = "done" =>
              /\ Len(parseReturned) = Cardinality(MarkerPositions)
              /\ \A k \in 1..Len(parseReturned) :
                    parseReturned[k].hash = HeaderHash(output[MarkerAt(k) + 1])

\* C9 holds of the entries no field of which holds a raw newline.
C9_OneCommitPerCleanEntry ==
    (IsEntryLog /\ ~NewlineInField) =>
        /\ parsePc # "failed"
        /\ parsePc = "done" =>
              /\ Len(parseReturned) = Cardinality(MarkerPositions)
              /\ \A k \in 1..Len(parseReturned) :
                    parseReturned[k].hash = HeaderHash(output[MarkerAt(k) + 1])

\* The fragments parseCommit rejects.
BadFragments == { k \in 1..Len(rawCommits) : parseCommit(rawCommits[k]).threw }

FirstBad == CHOOSE k \in BadFragments : \A j \in BadFragments : k <= j

\* C10: if any fragment fails to parse, parseGitLogOutput throws an error
\* whose cause.commit contains the raw fragment and returns no commit, the
\* well-formed fragments' commits included.
C10_FailureAbortsBatch ==
    /\ (parsePc \in {"map", "done", "failed"} /\ BadFragments # {}) =>
          /\ parsePc # "done"
          /\ parseReturned = <<>>
          /\ parsePc = "failed" =>
                /\ parseThrown.message = "Parse commit failed."
                /\ parseThrown.commit = rawCommits[FirstBad]
                /\ Head(parseThrown.commit) = Marker
                /\ Includes(output, Tail(parseThrown.commit))
    /\ parsePc = "failed" => BadFragments # {}

C10_Witness ==
    /\ parsePc = "failed"
    /\ Len(rawCommits) = 3
    /\ Len(parsed) = 1
    /\ parseThrown.commit = <<Marker, Hdr2, "Update">>
    /\ parseReturned = <<>>
    /\ ~parseCommit(rawCommits[3]).threw

\* C11: CommitSchema.parse turns the raw timestamp into a Date on both
\* paths: a numeric value N into the instant N seconds after the epoch, any
\* other value, a calendar date string, into the instant it denotes.
C11_TimestampBothPaths ==
    schemaPc = "done" =>
        /\ ~schemaOut.threw
        /\ schemaOut.commit.timestamp = schemaIn.timestamp.n * 1000

\* C11 holds of the numeric path alone.
C11_NumericPath ==
    (schemaPc = "done" /\ schemaIn.timestamp.numeric) =>
        /\ ~schemaOut.threw
        /\ schemaOut.commit.timestamp = schemaIn.timestamp.n * 1000

\* The subject with every glyph replaced by its code.
Unemojified(t) ==
    Flatten([k \in 1..Len(t) |->
                IF t[k] = Glyph THEN <<Colon, "memo", Colon>> ELSE <<t[k]>>])

\* C12: the subject of a parsed commit holds no emoji glyph, each glyph
\* being replaced by its :code:, and normalizing it again changes nothing.
C12_SubjectNormalized ==
    (schemaPc = "done" /\ ~schemaOut.threw) =>
        /\ \A k \in 1..Len(schemaOut.commit.subject) :
              schemaOut.commit.subject[k] # Glyph
        /\ schemaOut.commit.subject = Unemojified(Trim(schemaIn.subject))
        /\ parseSubject(schemaOut.commit) = schemaOut.commit

C12_Witness ==
    /\ schemaPc = "done"
    /\ schemaIn.subject = <<Glyph, Space, "Update">>
    /\ schemaOut.commit.subject = <<Colon, "memo", Colon, Space, "Update">>

\* C13: compareCommitsByTimestamp(a, b) is negative when a is later than
\* b, positive when a is earlier, 0 when the timestamps are equal.
C13_CompareSign ==
    cmpPc = "done" =>
        /\ cmpA.timestamp > cmpB.timestamp => cmpOut < 0
        /\ cmpA.timestamp < cmpB.timestamp => cmpOut > 0
        /\ cmpA.timestamp = cmpB.timestamp => cmpOut = 0

C13_Witness ==
    /\ cmpPc = "done"
    /\ cmpA.timestamp > cmpB.timestamp
    /\ cmpOut < 0

\* C14: for a version major.minor.patch without prerelease, getNextPatch
\* gives major.minor.(patch+1), getNextMinor major.(minor+1).0, getNextMajor
\* (major+1).0.0.
C14_NextVersions ==
    (verCall.op \in {"getNextPatch", "getNextMinor", "getNextMajor"}
        /\ objs[verCall.receiver].semver.prerelease = <<>>) =>
        LET v == objs[verCall.receiver].semver
            w == objs[verCall.result]
            a == IF verCall.op = "getNextMajor" THEN v.major + 1 ELSE v.major
            b == IF verCall.op = "getNextMajor" THEN 0
                 ELSE IF verCall.op = "getNextMinor" THEN v.minor + 1 ELSE v.minor
            c == IF verCall.op = "getNextPatch" THEN v.patch + 1 ELSE 0
        IN  /\ w.semver.major = a /\ w.semver.minor = b /\ w.semver.patch = c
            /\ w.semver.prerelease = <<>>
            /\ v.build = <<>> =>
                  w.version = ToDigits(a) \o <<Dot>> \o ToDigits(b) \o <<Dot>> \o ToDigits(c)
            /\ (objs[verCall.receiver].version = <<"1", Dot, "2", Dot, "3">>) =>
                  w.version = IF verCall.op = "getNextPatch" THEN <<"1", Dot, "2", Dot, "4">>
                              ELSE IF verCall.op = "getNextMinor"
                                   THEN <<"1", Dot, "3", Dot, "0">>
                                   ELSE <<"2", Dot, "0", Dot, "0">>

C14_Witness ==
    /\ verCall.op = "getNextMinor"
    /\ objs[verCall.receiver].version = <<"1", Dot, "9", Dot, "1">>
    /\ objs[verCall.result].version = <<"1", Dot, "1", "0", Dot, "0">>

\* A canonical version string: accepted by parse, with no "v" in front and
\* no blank around it.
IsCanonical(s) ==
    /\ s # <<>>
    /\ s[1] \in Digits
    /\ s[Len(s)] # Space
    /\ ~parse(s).threw

IsTriple(v) == v.prerelease = <<>> /\ v.build = <<>>

C16_TagIsVPlusVersion ==
    /\ \A k \in 1..Len(objs) : objs[k].tag = <<"v">> \o objs[k].version
    /\ release # NoRelease =>
          /\ release.version = version
          /\ release.tag = <<"v">> \o version

C16_Witness ==
    /\ verPc = "ready"
    /\ verRaw = FromString(<<Space, "0", Dot, "0", Dot, "1", Space>>)
    /\ Len(objs) = 2
    /\ objs[1].tag = <<"v", Space, "0", Dot, "0", Dot, "1", Space>>
    /\ objs[2].tag = <<"v", "0", Dot, "1", Dot, "0">>

\* C17: getNextVersion(t) returns the same version as the operation named
\* for t; the lookup maps each release type to exactly one operation and no
\* two types to the same one.
C17_DispatchByType ==
    /\ DOMAIN NEXT_VERSION_METHOD_BY_RELEASE_TYPE = ReleaseTypes
    /\ \A s, t \in ReleaseTypes :
          getMethodNameByReleaseType(s) = getMethodNameByReleaseType(t) => s = t
    /\ verCall.op = "getNextVersion" =>
          objs[verCall.result] =
              IF verCall.type = "patch" THEN getNextPatch(objs[verCall.receiver])
              ELSE IF verCall.type = "minor" THEN getNextMinor(objs[verCall.receiver])
              ELSE getNextMajor(objs[verCall.receiver])

C17_Witness ==
    /\ verCall.op = "getNextVersion"
    /\ verCall.type = "minor"
    /\ objs[verCall.receiver].version = <<"1", Dot, "2", Dot, "3">>
    /\ objs[verCall.result].version = <<"1", Dot, "3", Dot, "0">>

\* C18: an increment operation returns a new instance and leaves the
\* receiver unchanged: every instance stays what it was at construction.
C18_ReceiverUnchanged ==
    /\ [](verPc = "ready" => objs[1] = VersionObject(verRaw).obj)
    /\ [][/\ \A k \in 1..Len(objs) : k <= Len(objs') /\ objs'[k] = objs[k]
          /\ verCall' # verCall =>
                /\ Len(objs') = Len(objs) + 1
                /\ verCall'.result = Len(objs) + 1
                /\ verCall'.result # verCall'.receiver]_vars

C18_Witness ==
    /\ Len(objs) = 3
    /\ verCall.receiver = 1
    /\ verCall.result = 3
    /\ verRaw = FromString(<<"1", Dot, "2", Dot, "3">>)
    /\ objs[1] = [version |-> <<"1", Dot, "2", Dot, "3">>,
                  tag |-> <<"v", "1", Dot, "2", Dot, "3">>,
                  semver |-> SemVer(1, 2, 3, <<>>, <<>>)]

\* Every node of a tree: its path, its entry and the directories above it.
RECURSIVE Nodes(_, _, _)
Nodes(dir, listing, above) ==
    UNION { LET path == join(dir, listing[k].name) IN
            { [path |-> path, entry |-> listing[k], above |-> above] }
            \cup Nodes(path, listing[k].children, above \cup {path}) :
            k \in 1..Len(listing) }

IsDirectoryEntry(e) == "kind" \in DOMAIN e /\ e.kind = "directory"
IsFileEntry(e) == "kind" \in DOMAIN e /\ e.kind = "file"

\* The paths that have an entry in a manifest, at any depth.
RECURSIVE EmittedPaths(_, _)
EmittedPaths(dir, m) ==
    { join(dir, n) : n \in DOMAIN m }
    \cup UNION { IF IsDirectoryEntry(m[n]) THEN EmittedPaths(join(dir, n), m[n].entries)
                 ELSE {} : n \in DOMAIN m }

\* The file entries of a manifest, at any depth, with their paths.
RECURSIVE EmittedFiles(_, _)
EmittedFiles(dir, m) ==
    { [path |-> join(dir, n), gitSha1 |-> m[n].gitSha1, size |-> m[n].size] :
        n \in { x \in DOMAIN m : IsFileEntry(m[x]) } }
    \cup UNION { IF IsDirectoryEntry(m[n]) THEN EmittedFiles(join(dir, n), m[n].entries)
                 ELSE {} : n \in DOMAIN m }

Range(f) == { f[x] : x \in DOMAIN f }

\* The bytes of "blob <decimal length>\0" followed by the content.
BlobBytes(data) ==
    <<98, 108, 111, 98, 32>>
    \o [k \in 1..Len(ToDigits(Len(data))) |-> 48 + DigitValue(ToDigits(Len(data))[k])]
    \o <<0>> \o data

LowerHex == {"0", "1", "2", "3", "4", "5", "6", "7", "8", "9", "a", "b", "c", "d", "e", "f"}

HexValue(c) == (CHOOSE k \in 1..16 : HexChars[k] = c) - 1

\* text is the lowercase hex of the bytes: two characters for each.
IsHexOf(text, bytes) ==
    /\ Len(text) = 2 * Len(bytes)
    /\ \A k \in 1..Len(text) : text[k] \in LowerHex
    /\ \A k \in 1..Len(bytes) :
          16 * HexValue(text[2 * k - 1]) + HexValue(text[2 * k]) = bytes[k]

\* C19: the content hash of a file is the lowercase hex SHA-1 of "blob ",
\* the decimal byte length, a NUL and the file's bytes; it depends on the
\* bytes only; a file of length 0 hashes "blob 0\0".
C19_GitBlobHash ==
    deployPc = "done" =>
        LET files == EmittedFiles(RootDir, deployManifest)
            nodes == Nodes(RootDir, fsRoot, {})
        IN  /\ \A f \in files :
                  \E n \in nodes :
                      /\ n.path = f.path
                      /\ n.entry.kind = "file"
                      /\ f.size = Len(n.entry.data)
                      /\ IsHexOf(f.gitSha1, Sha1(BlobBytes(n.entry.data)))
                      /\ Len(f.gitSha1) = 40
                      /\ n.entry.data = <<>> =>
                            IsHexOf(f.gitSha1, Sha1(<<98, 108, 111, 98, 32, 48, 0>>))
                      /\ \A g \in files :
                            (\E o \in nodes : o.path = g.path
                                              /\ o.entry.data = n.entry.data)
                                => g.gitSha1 = f.gitSha1

C19_Witness ==
    /\ deployPc = "done"
    /\ deployExclusions = NoOption
    /\ fsRoot = <<File(<<"e">>, <<>>),
                  Dir(<<"s">>, <<File(<<"a">>, <<1>>), GitDir, EnvFile>>)>>
    /\ deployManifest[<<"e">>].size = 0
    /\ Len(deployManifest[<<"e">>].gitSha1) = 40
    /\ deployManifest[<<"s">>].entries[<<"a">>].size = 1
    /\ deployManifest[<<"s">>].entries[<<"a">>].gitSha1 # deployManifest[<<"e">>].gitSha1

\* C20: createManifest emits no entry, at any depth, for a path that matches
\* the exclusion pattern, and neither reads nor enters an excluded
\* directory: nothing below one is in the manifest or in the side table.
C20_ExcludedNeverEmitted ==
    deployPc = "done" =>
        LET emitted == EmittedPaths(RootDir, deployManifest)
            mapped == Range(deployEffects.mapping)
        IN  \A n \in Nodes(RootDir, fsRoot, {}) :
                (Test(exclusionRegex, n.path)
                    \/ \E a \in n.above : Test(exclusionRegex, a)) =>
                    /\ n.path \notin emitted
                    /\ n.path \notin mapped
                    /\ n.path \notin deployEffects.readFiles
                    /\ n.path \notin deployEffects.readDirs

C20_Witness ==
    /\ deployPc = "done"
    /\ deployExclusions = Option(<<"s", Slash, "a">>)
    /\ fsRoot = <<Dir(<<"s">>, <<File(<<"a">>, <<1>>), GitDir, EnvFile>>),
                  File(<<"a">>, <<1>>)>>
    /\ DOMAIN deployManifest = {<<"s">>, <<"a">>}
    /\ DOMAIN deployManifest[<<"s">>].entries = {}
    /\ Range(deployEffects.mapping) = {<<"a">>}
    /\ deployEffects.readDirs = {RootDir, <<"s">>}

\* The name holds ".git" somewhere.
HasDotGit(name) ==
    \E p \in 1..Len(name) :
        /\ p + 3 <= Len(name)
        /\ name[p] = "." /\ name[p + 1] = "g" /\ name[p + 2] = "i" /\ name[p + 3] = "t"

\* C21: createManifest never traverses into a directory whose name contains
\* ".git", whatever the exclusion pattern: nothing below it is read, hashed,
\* listed in the manifest or registered in the side table.
C21_DotGitNeverTraversed ==
    deployPc = "done" =>
        LET emitted == EmittedPaths(RootDir, deployManifest)
            mapped == Range(deployEffects.mapping)
        IN  \A n \in Nodes(RootDir, fsRoot, {}) :
                /\ (n.entry.kind = "directory" /\ HasDotGit(n.entry.name)) =>
                      n.path \notin deployEffects.readDirs
                /\ (\E a \in n.above : HasDotGit(LastSegment(a))) =>
                      /\ n.path \notin emitted
                      /\ n.path \notin mapped
                      /\ n.path \notin deployEffects.readFiles
                      /\ n.path \notin deployEffects.readDirs

C21_Witness ==
    /\ deployPc = "done"
    /\ deployExclusions = Option(<<"d">>)
    /\ fsRoot = <<Dir(<<"x", Dot, "g", "i", "t">>, <<File(<<"c">>, <<2>>)>>),
                  Dir(<<"s">>, <<File(<<"a">>, <<1>>), GitDir, EnvFile>>)>>
    /\ DOMAIN deployManifest = {<<"s">>}
    /\ DOMAIN deployManifest[<<"s">>].entries = {<<"a">>}
    /\ deployEffects.readDirs = {RootDir, <<"s">>}
    /\ deployEffects.readFiles = {<<"s", Slash, "a">>}

\* The first call of mapping.set for a hash.
FirstSet(h) ==
    CHOOSE k \in 1..Len(deployEffects.sets) :
        /\ deployEffects.sets[k].gitSha1 = h
        /\ \A j \in 1..(k - 1) : deployEffects.sets[j].gitSha1 # h

\* C22: the side table is write-once per hash: a later file with the same
\* content does not change the path stored for its hash, and in the end the
\* table holds one path for each distinct hash of the manifest's files.
C22_WriteOncePerHash ==
    deployPc = "done" =>
        /\ DOMAIN deployEffects.mapping =
              { f.gitSha1 : f \in EmittedFiles(RootDir, deployManifest) }
        /\ \A h \in DOMAIN deployEffects.mapping :
              deployEffects.mapping[h] = deployEffects.sets[FirstSet(h)].path

\* C22, the part that holds: one path for each distinct hash, the path of a
\* file with that hash.
C22_OnePathPerHash ==
    deployPc = "done" =>
        /\ DOMAIN deployEffects.mapping =
              { f.gitSha1 : f \in EmittedFiles(RootDir, deployManifest) }
        /\ \A h \in DOMAIN deployEffects.mapping :
              \E f \in EmittedFiles(RootDir, deployManifest) :
                  f.gitSha1 = h /\ f.path = deployEffects.mapping[h]

\* A listing with every listing of the tree in the opposite order.
RECURSIVE DeepReverse(_)
DeepReverse(listing) ==
    [k \in 1..Len(listing) |->
        LET e == listing[Len(listing) + 1 - k] IN
        [e EXCEPT !.children = DeepReverse(e.children)]]

\* The orders a listing may come in.
Reorderings(listing) ==
    LET perms == { p \in [1..Len(listing) -> 1..Len(listing)] :
                     \A x, y \in 1..Len(listing) : x # y => p[x] # p[y] }
        byPerm == { [k \in 1..Len(listing) |-> listing[p[k]]] : p \in perms }
    IN  byPerm \cup { DeepReverse(l) : l \in byPerm }

\* C23: for a fixed tree and pattern the nested entries map is the same
\* whatever order the listings come in (reads complete in listing order:
\* each is awaited before the next entry is taken).
C23_OrderIndependent ==
    deployPc = "done" =>
        \A l \in Reorderings(fsRoot) :
            createManifest(RootDir, l, exclusionRegex, NoEffects).manifest = deployManifest

C23_Witness ==
    /\ deployPc = "done"
    /\ deployExclusions = NoOption
    /\ fsRoot = <<Dir(<<"s">>, <<GitDir, EnvFile, File(<<"a">>, <<1>>)>>), File(<<"b">>, <<1>>)>>
    /\ DOMAIN deployManifest = {<<"s">>, <<"b">>}
    /\ DOMAIN deployManifest[<<"s">>].entries = {<<"a">>}
    /\ deployEffects.sets[1].path = <<"s", Slash, "a">>

\* The built-in fragments, and the caller's: the non-empty trimmed parts of
\* the comma-separated option.
BuiltInFragments ==
    << <<"^", ".", "g", "i", "t">>, <<"^", ".", "v", "s", "c", "o", "d", "e">>,
       <<".", "e", "n", "v", "*">> >>

CallerFragments(opt) ==
    IF ~opt.defined THEN <<>>
    ELSE SelectSeq([k \in 1..Len(SplitOn(opt.text, ",", <<>>, <<>>)) |->
                       Trim(SplitOn(opt.text, ",", <<>>, <<>>)[k])],
                   LAMBDA f : f # <<>>)

MatchesFragment(fragments, path) ==
    \E k \in 1..Len(fragments) : Test(RegExp(fragments[k]).alternatives, path)

\* The nodes createManifest comes to: every directory above is in the manifest.
Reached ==
    { n \in Nodes(RootDir, fsRoot, {}) :
        n.above \subseteq EmittedPaths(RootDir, deployManifest) }

NotDotGitDirectory(n) == ~(n.entry.kind = "directory" /\ HasDotGit(n.entry.name))

\* C24: the effective exclusion set is the union of the built-in fragments
\* and the caller's: a path is kept out of the manifest exactly when it
\* matches a built-in fragment or a caller-supplied one, for every list,
\* the empty one included.
C24_ExclusionIsUnion ==
    deployPc = "done" =>
        \A n \in Reached :
            NotDotGitDirectory(n) =>
                (n.path \notin EmittedPaths(RootDir, deployManifest)
                    <=> \/ MatchesFragment(BuiltInFragments, n.path)
                        \/ MatchesFragment(CallerFragments(deployExclusions), n.path))

\* C24 for a list with at least one fragment and no empty one.
C24_NonEmptyLists ==
    (deployPc = "done" /\ deployExclusions.defined
        /\ Len(CallerFragments(deployExclusions)) =
              Len(SplitOn(deployExclusions.text, ",", <<>>, <<>>))) =>
        \A n \in Reached :
            NotDotGitDirectory(n) =>
                (n.path \notin EmittedPaths(RootDir, deployManifest)
                    <=> \/ MatchesFragment(BuiltInFragments, n.path)
                        \/ MatchesFragment(CallerFragments(deployExclusions), n.path))

\* The values stored in a manifest, at any depth.
RECURSIVE EmittedValues(_)
EmittedValues(m) ==
    { m[n] : n \in DOMAIN m }
    \cup UNION { IF IsDirectoryEntry(m[n]) THEN EmittedValues(m[n].entries) ELSE {} :
                 n \in DOMAIN m }

\* C29: every value stored in an entries map is a manifest entry of kind
\* file, directory or symlink; no listed item gives a key without a value.
C29_EntriesWellFormed ==
    deployPc = "done" =>
        \A v \in EmittedValues(deployManifest) :
            "kind" \in DOMAIN v /\ v.kind \in {"file", "directory", "symlink"}

\* C29 for trees without symbolic links.
C29_NoSymlinks ==
    (deployPc = "done"
        /\ \A n \in Nodes(RootDir, fsRoot, {}) : n.entry.kind # "symlink") =>
        \A v \in EmittedValues(deployManifest) :
            "kind" \in DOMAIN v /\ v.kind \in {"file", "directory"}

\* C30: the files whose bytes are attached are the files of the manifest:
\* each attached file has a file entry with the hash of its bytes, each file
\* entry has its bytes attached.
C30_AttachedEqualsManifest ==
    deployPc = "done" =>
        LET files == EmittedFiles(RootDir, deployManifest) IN
        /\ { filesContent[k].path : k \in 1..Len(filesContent) } = { f.path : f \in files }
        /\ \A k \in 1..Len(filesContent) :
              \A f \in files :
                  f.path = filesContent[k].path =>
                      IsHexOf(f.gitSha1, Sha1(BlobBytes(filesContent[k].bytes)))

\* C30 for trees with no directory below the root named with ".git".
C30_NoNestedDotGit ==
    (deployPc = "done"
        /\ \A n \in Nodes(RootDir, fsRoot, {}) :
              (n.entry.kind = "directory" /\ HasDotGit(n.entry.name)) =>
                  Test(exclusionRegex, n.path)) =>
        { filesContent[k].path : k \in 1..Len(filesContent) }
            = { f.path : f \in EmittedFiles(RootDir, deployManifest) }

\* ------------------------------------------------- C27, C28: getReleaseObject
\* C27: whenever the loop stopped at a Release-labelled commit, whatever its
\* ref, previousTag is "v" followed by previous and the first-commit lookup
\* was not invoked; the lookup runs only when the loop ended without finding
\* a Release commit.
C27_ReleaseStopNoFallback ==
    LET b == Boundary IN
    /\ (pc \in {"return", "done"} /\ b <= Len(commits)) =>
          /\ release.previousTag = <<"v">> \o release.previous
          /\ fallbackCalls = 0
    /\ fallbackCalls > 0 => b > Len(commits)

\* The part of C27 that holds: a Release commit whose ref is not empty.
C27_NonEmptyRef ==
    LET b == Boundary IN
    (/\ pc \in {"return", "done"}
     /\ b <= Len(commits)
     /\ commits[b].ref # EmptyString) =>
        /\ release.previousTag = <<"v">> \o release.previous
        /\ fallbackCalls = 0

\* How many times c stands in the bucket of label l.
TimesInBucket(c, l) ==
    Cardinality({ k \in 1..Len(release.changes[l].commits) :
                    release.changes[l].commits[k] = c })

RECURSIVE SumOfSizes(_)
SumOfSizes(ls) ==
    IF ls = {} THEN 0
    ELSE LET l == CHOOSE x \in ls : TRUE
         IN  Len(release.changes[l].commits) + SumOfSizes(ls \ {l})

\* C28: when getReleaseObject returns, every input commit before the first
\* Release commit (every commit when there is none) stands exactly once in
\* the bucket of its own label and in no other bucket, and the sizes of the
\* buckets sum to the number of those commits.
C28_Partition ==
    pc \in {"after", "return", "done"} =>
        LET b == Boundary IN
        /\ \A k \in 1..(b - 1) : \A l \in DOMAIN release.changes :
              TimesInBucket(commits[k], l) =
                  IF l = getCommitLabel(commits[k].subject).label THEN 1 ELSE 0
        /\ \A k \in 1..(b - 1) :
              getCommitLabel(commits[k].subject).label \in DOMAIN release.changes
        /\ SumOfSizes(DOMAIN release.changes) = b - 1

C28_Witness ==
    /\ pc = "done"
    /\ Len(commits) = 3
    /\ Boundary = 3
    /\ returned.changes["Added"].commits = <<commits[1]>>
    /\ returned.changes["Fixed"].commits = <<commits[2]>>
    /\ SumOfSizes(DOMAIN returned.changes) = 2

\* ---------------------------- C25, C26: retrieveAllCommits, retrieveFirstCommit
\* How many times c stands in the sequence s.
Count(s, c) == Cardinality({ k \in 1..Len(s) : s[k] = c })

\* C25: retrieveAllCommits returns every commit of the parsed log exactly
\* once, most recent first: adjacent commits of the result have
\* non-increasing timestamps.
C25_AllOnceNewestFirst ==
    (retrPc = "done" /\ retrCall = "retrieveAllCommits") =>
        LET log == parseGitLogOutput(gitLog).commits IN
        /\ Len(retrAll) = Len(log)
        /\ \A k \in 1..Len(log) : Count(retrAll, log[k]) = Count(log, log[k])
        /\ \A k \in 1..(Len(retrAll) - 1) :
              retrAll[k].timestamp >= retrAll[k + 1].timestamp

C25_Witness ==
    /\ retrPc = "done"
    /\ retrCall = "retrieveAllCommits"
    /\ Len(retrAll) = 3
    /\ parseGitLogOutput(gitLog).commits[1].hash = <<"h2">>
    /\ parseGitLogOutput(gitLog).commits[3].hash = <<"h5">>
    /\ retrAll[1].hash = <<"h5">>
    /\ retrAll[2].hash = <<"h1">>
    /\ retrAll[3].hash = <<"h2">>

\* C26: retrieveFirstCommit returns one commit of the parsed first-parent
\* log whose timestamp is the least of that log; for a log with at least one
\* entry what it returns is a commit.
C26_OldestCommit ==
    (retrPc = "done" /\ retrCall = "retrieveFirstCommit") =>
        LET log == parseGitLogOutput(gitLog).commits IN
        log # <<>> =>
            /\ retrFirst # Undefined
            /\ \E k \in 1..Len(log) : log[k] = retrFirst
            /\ \A k \in 1..Len(log) : retrFirst.timestamp <= log[k].timestamp

C26_Witness ==
    /\ retrPc = "done"
    /\ retrCall = "retrieveFirstCommit"
    /\ Len(parseGitLogOutput(gitLog).commits) = 3
    /\ parseGitLogOutput(gitLog).commits[1].hash = <<"h1">>
    /\ parseGitLogOutput(gitLog).commits[2].hash = <<"h2">>
    /\ parseGitLogOutput(gitLog).commits[3].hash = <<"h5">>
    /\ retrFirst.hash = <<"h2">>
    /\ retrFirst.timestamp = 5000

====
